---- MODULE Spec2Model ----
(***************************************************************************)
(* The agentic chatbot workflow of src/langgraphagenticai: the server      *)
(* selector, the route decision, the MCP executor, the fallback chatbot,   *)
(* the response merger, and the graph that wires them (invoke and stream). *)
(*                                                                         *)
(* Python values are modelled as tagged records, a dict as a record whose  *)
(* DOMAIN is the set of keys present, and a str as the sequence of its     *)
(* characters, so that split, strip, lower and the substring test are      *)
(* computed as the code computes them.                                     *)
(***************************************************************************)
EXTENDS Integers, Sequences, FiniteSets, TLC

(***************************************************************************)
(* Bounds of the model.                                                    *)
(***************************************************************************)
\* the longest message history a request starts with
MaxHist == 2
\* the most the clock advances between two reads of it
MaxTick == 1

(***************************************************************************)
(* Python str operations on character sequences.                           *)
(***************************************************************************)
UpperChars ==
    << "A", "B", "C", "D", "E", "F", "G", "H", "I", "J", "K", "L", "M",
       "N", "O", "P", "Q", "R", "S", "T", "U", "V", "W", "X", "Y", "Z" >>

LowerChars ==
    << "a", "b", "c", "d", "e", "f", "g", "h", "i", "j", "k", "l", "m",
       "n", "o", "p", "q", "r", "s", "t", "u", "v", "w", "x", "y", "z" >>

\* str.lower() on one character
LowerChar(c) ==
    IF \E i \in DOMAIN UpperChars : UpperChars[i] = c
    THEN LowerChars[CHOOSE i \in DOMAIN UpperChars : UpperChars[i] = c]
    ELSE c

\* s.lower()
Lower(s) == [i \in 1..Len(s) |-> LowerChar(s[i])]

\* the characters str.strip() removes
IsSpace(c) == c \in {" ", "\n", "\t", "\r"}

SetMin(S) == CHOOSE m \in S : \A n \in S : m <= n

SetMax(S) == CHOOSE m \in S : \A n \in S : m >= n

\* s.strip()
Strip(s) ==
    LET keep == {i \in 1..Len(s) : ~IsSpace(s[i])}
    IN  IF keep = {} THEN << >> ELSE SubSeq(s, SetMin(keep), SetMax(keep))

\* s.startswith(p)
StartsWith(s, p) == Len(s) >= Len(p) /\ SubSeq(s, 1, Len(p)) = p

\* the positions at which sub occurs in s
Occurrences(s, sub) ==
    {i \in 1..(Len(s) - Len(sub) + 1) : SubSeq(s, i, i + Len(sub) - 1) = sub}

\* sub in s
Contains(s, sub) == Occurrences(s, sub) # {}

\* s.split(sep), sep not empty
RECURSIVE Split(_, _)
Split(s, sep) ==
    LET occ == Occurrences(s, sep)
    IN  IF occ = {}
        THEN << s >>
        ELSE LET p == SetMin(occ)
             IN  << SubSeq(s, 1, p - 1) >>
                 \o Split(SubSeq(s, p + Len(sep), Len(s)), sep)

\* sep.join(parts)
RECURSIVE Join(_, _)
Join(parts, sep) ==
    IF parts = << >> THEN << >>
    ELSE IF Len(parts) = 1 THEN parts[1]
    ELSE parts[1] \o sep \o Join(Tail(parts), sep)

\* x in list
InList(x, list) == \E i \in DOMAIN list : list[i] = x

\* list(dict.fromkeys(list)): the first occurrence of each element, in order
DictFromKeys(list) ==
    LET first == {i \in DOMAIN list : \A j \in 1..(i - 1) : list[j] # list[i]}
        F[i \in 0..Len(list)] ==
            IF i = 0 THEN << >>
            ELSE IF i \in first THEN Append(F[i - 1], list[i]) ELSE F[i - 1]
    IN  F[Len(list)]

(***************************************************************************)
(* The string literals of the source, the queries and the model outputs.   *)
(***************************************************************************)
\* "restaurant"
T_restaurant ==
    << "r", "e", "s", "t", "a", "u", "r", "a", "n", "t" >>

\* "parking"
T_parking ==
    << "p", "a", "r", "k", "i", "n", "g" >>

\* "weather"
T_weather ==
    << "w", "e", "a", "t", "h", "e", "r" >>

\* "hotel"
T_hotel ==
    << "h", "o", "t", "e", "l" >>

\* "RELEVANT_SERVERS:"
T_Marker ==
    << "R", "E", "L", "E", "V", "A", "N", "T", "_", "S", "E", "R", "V", "E", "R", "S", ":" >>

\* "Selected servers: "
T_SelectedServers ==
    << "S", "e", "l", "e", "c", "t", "e", "d", " ", "s", "e", "r", "v", "e", "r", "s", ":", " " >>

\* ", "
T_CommaSpace ==
    << ",", " " >>

\* "Error in server selection: "
T_ErrorInServerSelection ==
    << "E", "r", "r", "o", "r", " ", "i", "n", " ", "s", "e", "r", "v", "e", "r", " ", "s", "e",
       "l", "e", "c", "t", "i", "o", "n", ":", " " >>

\* "Error: "
T_ErrorColon ==
    << "E", "r", "r", "o", "r", ":", " " >>

\* "Error executing MCP servers: "
T_ErrorExecutingMcp ==
    << "E", "r", "r", "o", "r", " ", "e", "x", "e", "c", "u", "t", "i", "n", "g", " ", "M", "C",
       "P", " ", "s", "e", "r", "v", "e", "r", "s", ":", " " >>

\* "No valid servers selected"
T_NoValidServers ==
    << "N", "o", " ", "v", "a", "l", "i", "d", " ", "s", "e", "r", "v", "e", "r", "s", " ", "s",
       "e", "l", "e", "c", "t", "e", "d" >>

\* "No tools available from selected servers"
T_NoToolsAvailable ==
    << "N", "o", " ", "t", "o", "o", "l", "s", " ", "a", "v", "a", "i", "l", "a", "b", "l", "e",
       " ", "f", "r", "o", "m", " ", "s", "e", "l", "e", "c", "t", "e", "d", " ", "s", "e", "r",
       "v", "e", "r", "s" >>

\* "No response generated"
T_NoResponseGenerated ==
    << "N", "o", " ", "r", "e", "s", "p", "o", "n", "s", "e", " ", "g", "e", "n", "e", "r", "a",
       "t", "e", "d" >>

\* "Error merging response: "
T_ErrorMerging ==
    << "E", "r", "r", "o", "r", " ", "m", "e", "r", "g", "i", "n", "g", " ", "r", "e", "s", "p",
       "o", "n", "s", "e", ":", " " >>

\* "Error in agentic chatbot: "
T_ErrorInAgenticChatbot ==
    << "E", "r", "r", "o", "r", " ", "i", "n", " ", "a", "g", "e", "n", "t", "i", "c", " ", "c",
       "h", "a", "t", "b", "o", "t", ":", " " >>

\* "What's the weather like?"
Q_Weather ==
    << "W", "h", "a", "t", "'", "s", " ", "t", "h", "e", " ", "w", "e", "a", "t", "h", "e", "r",
       " ", "l", "i", "k", "e", "?" >>

\* "Find me a restaurant with parking and check the weather"
Q_Multi ==
    << "F", "i", "n", "d", " ", "m", "e", " ", "a", " ", "r", "e", "s", "t", "a", "u", "r", "a",
       "n", "t", " ", "w", "i", "t", "h", " ", "p", "a", "r", "k", "i", "n", "g", " ", "a", "n",
       "d", " ", "c", "h", "e", "c", "k", " ", "t", "h", "e", " ", "w", "e", "a", "t", "h", "e",
       "r" >>

\* "Hello, how are you?"
Q_Hello ==
    << "H", "e", "l", "l", "o", ",", " ", "h", "o", "w", " ", "a", "r", "e", " ", "y", "o", "u",
       "?" >>

\* "Sushi menu"
Q_Sushi ==
    << "S", "u", "s", "h", "i", " ", "m", "e", "n", "u" >>

\* "RELEVANT_SERVERS: weather\nREASONING: forecast"
A_Weather ==
    << "R", "E", "L", "E", "V", "A", "N", "T", "_", "S", "E", "R", "V", "E", "R", "S", ":", " ",
       "w", "e", "a", "t", "h", "e", "r", "\n", "R", "E", "A", "S", "O", "N", "I", "N", "G", ":",
       " ", "f", "o", "r", "e", "c", "a", "s", "t" >>

\* "RELEVANT_SERVERS: weather, restaurant\nREASONING: both"
A_Order ==
    << "R", "E", "L", "E", "V", "A", "N", "T", "_", "S", "E", "R", "V", "E", "R", "S", ":", " ",
       "w", "e", "a", "t", "h", "e", "r", ",", " ", "r", "e", "s", "t", "a", "u", "r", "a", "n",
       "t", "\n", "R", "E", "A", "S", "O", "N", "I", "N", "G", ":", " ", "b", "o", "t", "h" >>

\* "RELEVANT_SERVERS: [restaurant, parking, weather]\nREASONING: all"
A_Bracket ==
    << "R", "E", "L", "E", "V", "A", "N", "T", "_", "S", "E", "R", "V", "E", "R", "S", ":", " ",
       "[", "r", "e", "s", "t", "a", "u", "r", "a", "n", "t", ",", " ", "p", "a", "r", "k", "i",
       "n", "g", ",", " ", "w", "e", "a", "t", "h", "e", "r", "]", "\n", "R", "E", "A", "S", "O",
       "N", "I", "N", "G", ":", " ", "a", "l", "l" >>

\* "RELEVANT_SERVERS: none\nREASONING: chat"
A_None ==
    << "R", "E", "L", "E", "V", "A", "N", "T", "_", "S", "E", "R", "V", "E", "R", "S", ":", " ",
       "n", "o", "n", "e", "\n", "R", "E", "A", "S", "O", "N", "I", "N", "G", ":", " ", "c", "h",
       "a", "t" >>

\* "No server is needed."
A_NoMarker ==
    << "N", "o", " ", "s", "e", "r", "v", "e", "r", " ", "i", "s", " ", "n", "e", "e", "d", "e",
       "d", "." >>

\* "Answer:\n  RELEVANT_SERVERS:  Parking , PARKING\nREASONING: cars"
A_Case ==
    << "A", "n", "s", "w", "e", "r", ":", "\n", " ", " ", "R", "E", "L", "E", "V", "A", "N", "T",
       "_", "S", "E", "R", "V", "E", "R", "S", ":", " ", " ", "P", "a", "r", "k", "i", "n", "g",
       " ", ",", " ", "P", "A", "R", "K", "I", "N", "G", "\n", "R", "E", "A", "S", "O", "N", "I",
       "N", "G", ":", " ", "c", "a", "r", "s" >>

\* "timeout"
E_Timeout ==
    << "t", "i", "m", "e", "o", "u", "t" >>

\* "connection refused"
E_Refused ==
    << "c", "o", "n", "n", "e", "c", "t", "i", "o", "n", " ", "r", "e", "f", "u", "s", "e", "d" >>

\* "'messages'"
E_KeyMessages ==
    << "'", "m", "e", "s", "s", "a", "g", "e", "s", "'" >>

\* "'NoneType' object is not iterable"
E_NoneNotIterable ==
    << "'", "N", "o", "n", "e", "T", "y", "p", "e", "'", " ", "o", "b", "j", "e", "c", "t", " ",
       "i", "s", " ", "n", "o", "t", " ", "i", "t", "e", "r", "a", "b", "l", "e" >>

\* "'str' object has no attribute 'get'"
E_StrHasNoGet ==
    << "'", "s", "t", "r", "'", " ", "o", "b", "j", "e", "c", "t", " ", "h", "a", "s", " ", "n",
       "o", " ", "a", "t", "t", "r", "i", "b", "u", "t", "e", " ", "'", "g", "e", "t", "'" >>

\* "Unsupported message type"
E_BadMessage ==
    << "U", "n", "s", "u", "p", "p", "o", "r", "t", "e", "d", " ", "m", "e", "s", "s", "a", "g",
       "e", " ", "t", "y", "p", "e" >>

\* "It is sunny."
R_Sunny ==
    << "I", "t", " ", "i", "s", " ", "s", "u", "n", "n", "y", "." >>

\* "Hi there!"
R_Hi ==
    << "H", "i", " ", "t", "h", "e", "r", "e", "!" >>

\* "Earlier answer"
R_Earlier ==
    << "E", "a", "r", "l", "i", "e", "r", " ", "a", "n", "s", "w", "e", "r" >>

\* "ok"
R_Ok ==
    << "o", "k" >>

\* "7"
R_Seven ==
    << "7" >>

\* "None"
T_None ==
    << "N", "o", "n", "e" >>

\* "[]"
T_EmptyList ==
    << "[", "]" >>

\* "\n\n[Information gathered from: "
T_GatheredFrom ==
    << "\n", "\n", "[", "I", "n", "f", "o", "r", "m", "a", "t", "i", "o", "n", " ", "g", "a", "t",
       "h", "e", "r", "e", "d", " ", "f", "r", "o", "m", ":", " " >>

\* " servers]"
T_ServersClose ==
    << " ", "s", "e", "r", "v", "e", "r", "s", "]" >>

\* "Parking"
T_ParkingKey ==
    << "P", "a", "r", "k", "i", "n", "g" >>

\* "Weather"
T_WeatherKey ==
    << "W", "e", "a", "t", "h", "e", "r" >>

\* "'NoneType' object is not reversible"
E_NoneNotReversible ==
    << "'", "N", "o", "n", "e", "T", "y", "p", "e", "'", " ", "o", "b", "j", "e", "c", "t", " ",
       "i", "s", " ", "n", "o", "t", " ", "r", "e", "v", "e", "r", "s", "i", "b", "l", "e" >>

(***************************************************************************)
(* MCPServerSelectorNode: the keyword catalog and the parsing of the       *)
(* model's analysis.                                                       *)
(***************************************************************************)
server_mappings ==
    << [ name |-> T_restaurant,
         keywords |-> <<
            << "r", "e", "s", "t", "a", "u", "r", "a", "n", "t" >>,
            << "s", "u", "s", "h", "i" >>,
            << "f", "o", "o", "d" >>,
            << "m", "e", "n", "u" >>,
            << "d", "i", "n", "i", "n", "g" >>,
            << "e", "a", "t" >>,
            << "l", "u", "n", "c", "h" >>,
            << "d", "i", "n", "n", "e", "r" >>,
            << "c", "u", "i", "s", "i", "n", "e" >>,
            << "m", "e", "a", "l" >> >> ],
       [ name |-> T_parking,
         keywords |-> <<
            << "p", "a", "r", "k", "i", "n", "g" >>,
            << "p", "a", "r", "k" >>,
            << "s", "p", "o", "t" >>,
            << "g", "a", "r", "a", "g", "e" >>,
            << "l", "o", "t" >>,
            << "v", "e", "h", "i", "c", "l", "e" >>,
            << "c", "a", "r" >>,
            << "s", "p", "a", "c", "e" >> >> ],
       [ name |-> T_weather,
         keywords |-> <<
            << "w", "e", "a", "t", "h", "e", "r" >>,
            << "t", "e", "m", "p", "e", "r", "a", "t", "u", "r", "e" >>,
            << "r", "a", "i", "n" >>,
            << "s", "u", "n", "n", "y" >>,
            << "c", "l", "o", "u", "d", "y" >>,
            << "c", "l", "i", "m", "a", "t", "e" >>,
            << "f", "o", "r", "e", "c", "a", "s", "t" >>,
            << "t", "e", "m", "p", "e", "r", "a", "t", "u", "r", "e" >> >> ] >>

\* the literal list the structured parse validates against
KnownServers == << T_restaurant, T_parking, T_weather >>

\* the token list of one RELEVANT_SERVERS line
ServerList(line) ==
    LET servers_text == Strip(Split(line, T_Marker)[2])
        tokens == Split(servers_text, << "," >>)
    IN  [i \in DOMAIN tokens |-> Lower(Strip(tokens[i]))]

\* the known servers one line names, in the order the line names them
LineServersAsListed(line) ==
    DictFromKeys(SelectSeq(ServerList(line),
                           LAMBDA token : InList(token, KnownServers)))

\* the known servers one line names, in the order of the validation loop
LineServers(line) ==
    SelectSeq(KnownServers, LAMBDA server : InList(server, ServerList(line)))

\* the loop over the lines: the first marker line that names a known server
RECURSIVE StructuredSelection(_)
StructuredSelection(lines) ==
    IF lines = << >> THEN << >>
    ELSE IF /\ StartsWith(Strip(Head(lines)), T_Marker)
            /\ LineServers(Head(lines)) # << >>
         THEN LineServers(Head(lines))
         ELSE StructuredSelection(Tail(lines))

\* the keyword fallback without its default
KeywordSelectionNoDefault(user_message) ==
    LET user_lower == Lower(user_message)
        hit(row) == \E k \in DOMAIN row.keywords :
                        Contains(user_lower, row.keywords[k])
        rows == SelectSeq(server_mappings, hit)
    IN  DictFromKeys([i \in DOMAIN rows |-> rows[i].name])

\* the keyword fallback appending once per matching keyword, neither leaving
\* the keyword loop at the first match nor removing duplicates
KeywordSelectionPerKeyword(user_message) ==
    LET user_lower == Lower(user_message)
        hits(row) == SelectSeq(row.keywords,
                               LAMBDA keyword : Contains(user_lower, keyword))
        F[i \in 0..Len(server_mappings)] ==
            IF i = 0 THEN << >>
            ELSE F[i - 1] \o [j \in 1..Len(hits(server_mappings[i])) |->
                                 server_mappings[i].name]
        selected_servers == F[Len(server_mappings)]
    IN  IF selected_servers = << >> THEN << T_restaurant >> ELSE selected_servers

\* the keyword fallback: one entry per catalog row with a keyword in the query
KeywordSelection(user_message) ==
    LET user_lower == Lower(user_message)
        hit(row) == \E k \in DOMAIN row.keywords :
                        Contains(user_lower, row.keywords[k])
        rows == SelectSeq(server_mappings, hit)
        selected_servers == DictFromKeys([i \in DOMAIN rows |-> rows[i].name])
    IN  IF selected_servers = << >> THEN << T_restaurant >> ELSE selected_servers

\* _parse_server_selection(analysis_text, user_message)
ParseServerSelection(analysis_text, user_message) ==
    LET structured ==
            IF Contains(analysis_text, T_Marker)
            THEN StructuredSelection(Split(analysis_text, << "\n" >>))
            ELSE << >>
    IN  IF structured # << >> THEN structured
        ELSE KeywordSelection(user_message)

\* the analyses and queries of the model, parsed once
AnalysisTexts == {A_Weather, A_Order, A_Bracket, A_None, A_NoMarker, A_Case}

QueryTexts == {<< >>, Q_Weather, Q_Multi, Q_Hello, Q_Sushi, R_Earlier, R_Ok}

SelectionTable ==
    [a \in AnalysisTexts, q \in QueryTexts |-> ParseServerSelection(a, q)]

\* _parse_server_selection, looked up when already computed
Selection(analysis_text, user_message) ==
    IF << analysis_text, user_message >> \in DOMAIN SelectionTable
    THEN SelectionTable[analysis_text, user_message]
    ELSE ParseServerSelection(analysis_text, user_message)

(***************************************************************************)
(* Python values.                                                          *)
(***************************************************************************)
PyNone == [tag |-> "none"]

PyStr(text) == [tag |-> "str", val |-> text]

PyList(items) == [tag |-> "list", val |-> items]

PyDict(d) == [tag |-> "dict", val |-> d]

\* a value that is neither a message, a mapping nor a string: the integer 7
PyOther == [tag |-> "int", val |-> 7]

EmptyDict == [k \in {} |-> 0]

\* state.get(key, default)
Get(d, key, default) == IF key \in DOMAIN d THEN d[key] ELSE default

\* bool(x)
Truthy(x) ==
    CASE x.tag = "none" -> FALSE
      [] x.tag = "list" -> x.val # << >>
      [] x.tag = "str"  -> x.val # << >>
      [] x.tag = "dict" -> DOMAIN x.val # {}
      [] OTHER -> TRUE

\* str(x), for the values the code applies it to
Str(x) ==
    CASE x.tag = "str"  -> x.val
      [] x.tag = "none" -> T_None
      [] x.tag = "list" /\ x.val = << >> -> T_EmptyList
      [] x.tag = "int"  -> R_Seven

\* a langchain message object (BaseMessage): it has a content attribute
Message(role, content) == [tag |-> "msg", role |-> role, content |-> content]

AIMessage(content) == Message("ai", content)

HumanMessage(content) == Message("human", content)

\* hasattr(x, "content")
HasContent(x) == x.tag = "msg"

\* isinstance(x, dict) and "content" in x
IsDictWithContent(x) == x.tag = "dict" /\ "content" \in DOMAIN x.val

\* what a call returns: a value or a raised exception, with the external
\* calls it made
Return(value, calls) == [tag |-> "return", val |-> value, calls |-> calls]

Raise(err, calls) == [tag |-> "raise", err |-> err, calls |-> calls]

(***************************************************************************)
(* MCPServerSelectorNode.process                                           *)
(***************************************************************************)
\* the loop over reversed(state["messages"]): the content of the latest
\* message that has one, "" when none has
RECURSIVE LatestContent(_)
LatestContent(messages) ==
    IF messages = << >> THEN << >>
    ELSE LET message == messages[Len(messages)]
         IN  IF HasContent(message) THEN message.content
             ELSE IF IsDictWithContent(message) THEN message.val.content
             ELSE LatestContent(SubSeq(messages, 1, Len(messages) - 1))

\* the try block of process
SelectorTry(state, llm, start_time, end_time) ==
    IF "messages" \notin DOMAIN state THEN Raise(E_KeyMessages, << >>)
    ELSE IF state.messages.tag = "none" THEN Raise(E_NoneNotReversible, << >>)
    ELSE
    LET user_message ==
            IF state.messages.tag = "list"
            THEN LatestContent(state.messages.val)
            ELSE << >>
        calls == << [call |-> "llm", by |-> "mcp_selector",
                     query |-> user_message, outcome |-> llm] >>
    IN  IF llm.kind = "raise" THEN Raise(llm.err, calls)
        ELSE
        LET analysis_text ==
                IF HasContent(llm.response) THEN llm.response.content
                ELSE Str(llm.response)
            relevant_servers == Selection(analysis_text, user_message)
        IN  Return([messages |-> AIMessage(T_SelectedServers
                                   \o Join(relevant_servers, T_CommaSpace)),
                    selected_servers |-> PyList(relevant_servers),
                    analysis |-> PyStr(analysis_text),
                    start_time |-> start_time,
                    end_time |-> end_time,
                    response_time_seconds |-> end_time - start_time],
                   calls)

\* the except block selecting nothing
SelectorExceptEmpty(e, start_time, end_time) ==
    [messages |-> AIMessage(T_ErrorInServerSelection \o e),
     selected_servers |-> PyList(<< >>),
     analysis |-> PyStr(T_ErrorColon \o e),
     start_time |-> start_time,
     end_time |-> end_time,
     response_time_seconds |-> end_time - start_time]

\* the except block of process
SelectorExcept(e, start_time, end_time) ==
    [messages |-> AIMessage(T_ErrorInServerSelection \o e),
     selected_servers |-> PyList(<< T_restaurant >>),
     analysis |-> PyStr(T_ErrorColon \o e),
     start_time |-> start_time,
     end_time |-> end_time,
     response_time_seconds |-> end_time - start_time]

\* process without its except block
SelectorProcessUncaught(state, llm, start_time, end_time) ==
    SelectorTry(state, llm, start_time, end_time)

SelectorProcess(state, llm, start_time, end_time) ==
    LET r == SelectorTry(state, llm, start_time, end_time)
    IN  IF r.tag = "raise"
        THEN Return(SelectorExcept(r.err, start_time, end_time), r.calls)
        ELSE r

(***************************************************************************)
(* AgenticChatbotGraph._should_use_mcp                                     *)
(***************************************************************************)
\* the decision made on the presence of the key alone
ShouldUseMcpKeyPresent(state) ==
    IF "selected_servers" \in DOMAIN state THEN "use_mcp" ELSE "use_fallback"

ShouldUseMcp(state) ==
    LET selected_servers == Get(state, "selected_servers", PyList(<< >>))
    IN  IF Truthy(selected_servers) /\ Len(selected_servers.val) > 0
        THEN "use_mcp"
        ELSE "use_fallback"

(***************************************************************************)
(* MCPExecutorNode                                                         *)
(***************************************************************************)
\* the keys of server_configs
server_configs == << "restaurant", "Parking", "Weather" >>

\* the if/elif chain ending in an else branch that configures the first service
ServiceOfDefaulting(server) ==
    CASE server = T_restaurant -> << "restaurant" >>
      [] server = T_parking    -> << "Parking" >>
      [] server = T_weather    -> << "Weather" >>
      [] OTHER                 -> << "restaurant" >>

\* the if/elif chain testing for the parking domain under its service's name
ServiceOfMisnamed(server) ==
    CASE server = T_restaurant -> << "restaurant" >>
      [] server = << "P", "a", "r", "k", "i", "n", "g" >> -> << "Parking" >>
      [] server = T_weather    -> << "Weather" >>
      [] OTHER                 -> << >>

\* the if/elif chain of the loop: the server_configs key of a selected server
ServiceOf(server) ==
    CASE server = T_restaurant -> << "restaurant" >>
      [] server = T_parking    -> << "Parking" >>
      [] server = T_weather    -> << "Weather" >>
      [] OTHER                 -> << >>

\* the loop left at the first identifier that is no known domain
RECURSIVE ServerConfigStopping(_)
ServerConfigStopping(selected) ==
    IF selected = << >> THEN << >>
    ELSE IF ServiceOf(Head(selected)) = << >> THEN << >>
    ELSE DictFromKeys(ServiceOf(Head(selected))
                        \o ServerConfigStopping(Tail(selected)))

\* every configured service, whatever was selected
ServerConfigAll(selected) == server_configs

\* the keys of server_config after the loop, in insertion order
RECURSIVE ServerConfig(_)
ServerConfig(selected) ==
    IF selected = << >> THEN << >>
    ELSE DictFromKeys(ServiceOf(Head(selected)) \o ServerConfig(Tail(selected)))

\* the tools each service offers when it offers any
ToolsOf(service) ==
    CASE service = "restaurant" -> << "get_all_restaurants", "get_restaurant_menu" >>
      [] service = "Parking"    -> << "get_parking" >>
      [] service = "Weather"    -> << "get_weather_summary" >>

RECURSIVE AllTools(_)
AllTools(services) ==
    IF services = << >> THEN << >>
    ELSE ToolsOf(Head(services)) \o AllTools(Tail(services))

\* the try block without the test of the tool list: the agent is created and
\* called also when no tool was discovered
ExecutorTryWithoutToolTest(state, env, start_time, end_time) ==
    LET selected_servers ==
            Get(state, "selected_servers", PyList(<< T_restaurant >>))
    IN
    IF selected_servers.tag # "list" THEN Raise(E_NoneNotIterable, << >>)
    ELSE
    LET server_config == ServerConfig(selected_servers.val)
        early(text, calls) ==
            Return([messages |-> PyStr(text),
                    mcp_responses |-> PyDict(EmptyDict),
                    start_time |-> start_time,
                    end_time |-> end_time,
                    response_time_seconds |-> end_time - start_time],
                   calls)
        discover == << [call |-> "get_tools", services |-> server_config,
                        outcome |-> env.discover] >>
    IN
    IF server_config = << >> THEN early(T_NoValidServers, << >>)
    ELSE IF env.discover.kind = "raise" THEN Raise(env.discover.err, discover)
    ELSE
    LET tools == env.discover.tools IN
    IF "messages" \notin DOMAIN state THEN Raise(E_KeyMessages, discover)
    ELSE
    LET calls == discover \o << [call |-> "agent",
                                 messages |-> state.messages,
                                 tools |-> tools,
                                 outcome |-> env.agent] >>
    IN
    IF env.agent.kind = "raise" THEN Raise(env.agent.err, calls)
    ELSE
    LET response == IF env.agent.kind = "return" THEN env.agent.messages
                    ELSE << >>
        final_message ==
            IF response # << >> THEN response[Len(response)]
            ELSE AIMessage(T_NoResponseGenerated)
    IN  Return([messages |-> final_message,
                mcp_responses |-> PyDict(
                    [selected_servers |-> selected_servers,
                     tools_used |-> PyList(tools),
                     response |-> PyStr(final_message.content)]),
                start_time |-> start_time,
                end_time |-> end_time,
                response_time_seconds |-> end_time - start_time],
               calls)

\* the try block taking the tools of the first service only and starting the
\* agent on them, also when discovery failed at a later service
ExecutorTryWithoutJoin(state, env, start_time, end_time) ==
    LET selected_servers ==
            Get(state, "selected_servers", PyList(<< T_restaurant >>))
    IN
    IF selected_servers.tag # "list" THEN Raise(E_NoneNotIterable, << >>)
    ELSE
    LET server_config == ServerConfig(selected_servers.val)
        early(text, calls) ==
            Return([messages |-> PyStr(text),
                    mcp_responses |-> PyDict(EmptyDict),
                    start_time |-> start_time,
                    end_time |-> end_time,
                    response_time_seconds |-> end_time - start_time],
                   calls)
        discover == << [call |-> "get_tools", services |-> server_config,
                        outcome |-> env.discover] >>
    IN
    IF server_config = << >> THEN early(T_NoValidServers, << >>)
    ELSE IF env.discover.kind = "raise" /\ env.discover.at = server_config[1]
    THEN Raise(env.discover.err, discover)
    ELSE
    LET tools == IF env.discover.kind = "raise" THEN ToolsOf(server_config[1])
                 ELSE env.discover.tools
    IN
    IF tools = << >> THEN early(T_NoToolsAvailable, discover)
    ELSE IF "messages" \notin DOMAIN state THEN Raise(E_KeyMessages, discover)
    ELSE
    LET calls == discover \o << [call |-> "agent",
                                 messages |-> state.messages,
                                 tools |-> tools,
                                 outcome |-> env.agent] >>
    IN
    IF env.agent.kind = "raise" THEN Raise(env.agent.err, calls)
    ELSE
    LET response == IF env.agent.kind = "return" THEN env.agent.messages
                    ELSE << >>
        final_message ==
            IF response # << >> THEN response[Len(response)]
            ELSE AIMessage(T_NoResponseGenerated)
    IN  Return([messages |-> final_message,
                mcp_responses |-> PyDict(
                    [selected_servers |-> selected_servers,
                     tools_used |-> PyList(tools),
                     response |-> PyStr(final_message.content)]),
                start_time |-> start_time,
                end_time |-> end_time,
                response_time_seconds |-> end_time - start_time],
               calls)

\* the try block of execute_mcp_servers; env.discover is the outcome of
\* client.get_tools() and env.agent the outcome of agent.ainvoke
ExecutorTry(state, env, start_time, end_time) ==
    LET selected_servers ==
            Get(state, "selected_servers", PyList(<< T_restaurant >>))
    IN
    IF selected_servers.tag # "list" THEN Raise(E_NoneNotIterable, << >>)
    ELSE
    LET server_config == ServerConfig(selected_servers.val)
        early(text, calls) ==
            Return([messages |-> PyStr(text),
                    mcp_responses |-> PyDict(EmptyDict),
                    start_time |-> start_time,
                    end_time |-> end_time,
                    response_time_seconds |-> end_time - start_time],
                   calls)
        discover == << [call |-> "get_tools", services |-> server_config,
                        outcome |-> env.discover] >>
    IN
    IF server_config = << >> THEN early(T_NoValidServers, << >>)
    ELSE IF env.discover.kind = "raise" THEN Raise(env.discover.err, discover)
    ELSE
    LET tools == env.discover.tools IN
    IF tools = << >> THEN early(T_NoToolsAvailable, discover)
    ELSE IF "messages" \notin DOMAIN state THEN Raise(E_KeyMessages, discover)
    ELSE
    LET calls == discover \o << [call |-> "agent",
                                 messages |-> state.messages,
                                 tools |-> tools,
                                 outcome |-> env.agent] >>
    IN
    IF env.agent.kind = "raise" THEN Raise(env.agent.err, calls)
    ELSE
    LET response == env.agent.messages
        final_message ==
            IF response # << >> THEN response[Len(response)]
            ELSE AIMessage(T_NoResponseGenerated)
    IN  Return([messages |-> final_message,
                mcp_responses |-> PyDict(
                    [selected_servers |-> selected_servers,
                     tools_used |-> PyList(tools),
                     response |-> PyStr(final_message.content)]),
                start_time |-> start_time,
                end_time |-> end_time,
                response_time_seconds |-> end_time - start_time],
               calls)

\* the except block answering with the bare exception text
ExecutorExceptUnprefixed(e, start_time, end_time) ==
    [messages |-> AIMessage(e),
     mcp_responses |-> PyDict([error |-> PyStr(e)]),
     start_time |-> start_time,
     end_time |-> end_time,
     response_time_seconds |-> end_time - start_time]

\* the except block putting the default selection back into the state
ExecutorExceptResetting(e, start_time, end_time) ==
    [messages |-> AIMessage(T_ErrorExecutingMcp \o e),
     mcp_responses |-> PyDict([error |-> PyStr(e)]),
     selected_servers |-> PyList(<< T_restaurant >>),
     start_time |-> start_time,
     end_time |-> end_time,
     response_time_seconds |-> end_time - start_time]

\* the except block filling the fields of the success record next to the error
ExecutorExceptWithFields(e, start_time, end_time) ==
    [messages |-> AIMessage(T_ErrorExecutingMcp \o e),
     mcp_responses |-> PyDict([error |-> PyStr(e),
                               tools_used |-> PyList(<< >>),
                               response |-> PyStr(e)]),
     start_time |-> start_time,
     end_time |-> end_time,
     response_time_seconds |-> end_time - start_time]

\* the except block of execute_mcp_servers
ExecutorExcept(e, start_time, end_time) ==
    [messages |-> AIMessage(T_ErrorExecutingMcp \o e),
     mcp_responses |-> PyDict([error |-> PyStr(e)]),
     start_time |-> start_time,
     end_time |-> end_time,
     response_time_seconds |-> end_time - start_time]

\* execute_mcp_servers without its except block
ExecuteMcpServersUncaught(state, env, start_time, end_time) ==
    ExecutorTry(state, env, start_time, end_time)

ExecuteMcpServers(state, env, start_time, end_time) ==
    LET r == ExecutorTry(state, env, start_time, end_time)
    IN  IF r.tag = "raise"
        THEN Return(ExecutorExcept(r.err, start_time, end_time), r.calls)
        ELSE r

\* execute_mcp_servers_sync: asyncio.run of the coroutine
ExecuteMcpServersSync(state, env, start_time, end_time) ==
    ExecuteMcpServers(state, env, start_time, end_time)

\* the tables the nodes of one AgenticChatbotGraph instance hold in their
\* fields, shared by every request the instance handles
ShippedTables ==
    [server_mappings |-> server_mappings, server_configs |-> server_configs]

\* the executor building server_config as an alias of self.server_configs and
\* dropping the services that were not selected
SharedAfterAliasing(name, tables, state) ==
    LET selected_servers ==
            Get(state, "selected_servers", PyList(<< T_restaurant >>))
    IN  IF name = "mcp_executor" /\ selected_servers.tag = "list"
        THEN [tables EXCEPT !.server_configs = ServerConfig(selected_servers.val)]
        ELSE tables

\* the instance's tables after a node has run on a state: every node assigns
\* local names only (the executor fills a fresh server_config dict), none
\* assigns a field of self or an entry of its tables
SharedAfter(name, tables, state) == tables

\* str(KeyError(key)) for a key of server_configs
KeyErrorText(service) ==
    << "'" >>
        \o (CASE service = "restaurant" -> T_restaurant
              [] service = "Parking"    -> T_ParkingKey
              [] service = "Weather"    -> T_WeatherKey)
        \o << "'" >>

\* execute_mcp_servers_sync on an instance whose server_configs holds these
\* keys: self.server_configs[...] raises KeyError, inside the try block, for
\* the first selected service that is missing
ExecuteWith(configs, state, env, start_time, end_time) ==
    LET selected_servers ==
            Get(state, "selected_servers", PyList(<< T_restaurant >>))
        needed == IF selected_servers.tag = "list"
                  THEN ServerConfig(selected_servers.val)
                  ELSE << >>
        missing == SelectSeq(needed, LAMBDA s : ~InList(s, configs))
    IN  IF missing = << >>
        THEN ExecuteMcpServersSync(state, env, start_time, end_time)
        ELSE Return(ExecutorExcept(KeyErrorText(missing[1]), start_time, end_time),
                    << >>)

(***************************************************************************)
(* BasicChatbotNode.process                                                *)
(***************************************************************************)
\* process returning an empty domain record next to its turn
BasicChatbotProcessWithRecord(state, llm, start_time, end_time) ==
    IF "messages" \notin DOMAIN state THEN Raise(E_KeyMessages, << >>)
    ELSE
    LET calls == << [call |-> "llm", by |-> "fallback_chatbot",
                     messages |-> state.messages, outcome |-> llm] >>
        timed(message) ==
            Return([messages |-> message,
                    mcp_responses |-> PyDict(EmptyDict),
                    start_time |-> start_time,
                    end_time |-> end_time,
                    response_time_seconds |-> end_time - start_time],
                   calls)
    IN  IF llm.kind = "raise" THEN Raise(llm.err, calls)
        ELSE IF HasContent(llm.response) THEN timed(llm.response)
        ELSE IF IsDictWithContent(llm.response)
             THEN timed(AIMessage(llm.response.val.content))
        ELSE timed(AIMessage(Str(llm.response)))

BasicChatbotProcess(state, llm, start_time, end_time) ==
    IF "messages" \notin DOMAIN state THEN Raise(E_KeyMessages, << >>)
    ELSE
    LET calls == << [call |-> "llm", by |-> "fallback_chatbot",
                     messages |-> state.messages, outcome |-> llm] >>
        timed(message) ==
            Return([messages |-> message,
                    start_time |-> start_time,
                    end_time |-> end_time,
                    response_time_seconds |-> end_time - start_time],
                   calls)
    IN  IF llm.kind = "raise" THEN Raise(llm.err, calls)
        ELSE IF HasContent(llm.response) THEN timed(llm.response)
        ELSE IF IsDictWithContent(llm.response)
             THEN timed(AIMessage(llm.response.val.content))
        ELSE timed(AIMessage(Str(llm.response)))

(***************************************************************************)
(* AgenticChatbotGraph._response_merger_node                               *)
(***************************************************************************)
\* the extraction reading the first message of the list, not the last
ResponseContentOfFirst(messages) ==
    IF messages.tag = "list" /\ Len(messages.val) > 0
    THEN LET last_message == messages.val[1]
         IN  IF HasContent(last_message) THEN last_message.content
             ELSE IF IsDictWithContent(last_message) THEN last_message.val.content
             ELSE Str(last_message)
    ELSE IF messages.tag = "str" THEN messages.val
    ELSE Str(messages)

\* the content extracted from the state's messages
ResponseContent(messages) ==
    IF messages.tag = "list" /\ Len(messages.val) > 0
    THEN LET last_message == messages.val[Len(messages.val)]
         IN  IF HasContent(last_message) THEN last_message.content
             ELSE IF IsDictWithContent(last_message) THEN last_message.val.content
             ELSE Str(last_message)
    ELSE IF messages.tag = "str" THEN messages.val
    ELSE Str(messages)

\* a merge that reports an errored mcp_responses as a failure of its own
MergerTryOverwriting(state, start_time, end_time) ==
    LET messages == Get(state, "messages", PyStr(<< >>))
        mcp_responses == Get(state, "mcp_responses", PyDict(EmptyDict))
        response_content == ResponseContent(messages)
    IN  IF Truthy(mcp_responses) /\ mcp_responses.tag # "dict"
        THEN Raise(E_StrHasNoGet, << >>)
        ELSE IF /\ Truthy(mcp_responses)
                /\ Truthy(Get(mcp_responses.val, "error", PyNone))
        THEN Raise(mcp_responses.val.error.val, << >>)
        ELSE Return([messages |-> AIMessage(response_content),
                     start_time |-> start_time,
                     end_time |-> end_time,
                     response_time_seconds |-> end_time - start_time],
                    << >>)

\* the try block with the server attribution of lines 228-230 switched on
MergerTryAttributing(state, start_time, end_time) ==
    LET messages == Get(state, "messages", PyStr(<< >>))
        mcp_responses == Get(state, "mcp_responses", PyDict(EmptyDict))
        selected_servers == Get(state, "selected_servers", PyList(<< >>))
        response_content == ResponseContent(messages)
    IN  IF Truthy(mcp_responses) /\ mcp_responses.tag # "dict"
        THEN Raise(E_StrHasNoGet, << >>)
        ELSE
        LET final_message ==
                IF /\ Truthy(mcp_responses)
                   /\ ~Truthy(Get(mcp_responses.val, "error", PyNone))
                   /\ Truthy(selected_servers)
                THEN AIMessage(response_content \o T_GatheredFrom
                        \o Join(selected_servers.val, T_CommaSpace)
                        \o T_ServersClose)
                ELSE AIMessage(response_content)
        IN  Return([messages |-> final_message,
                    start_time |-> start_time,
                    end_time |-> end_time,
                    response_time_seconds |-> end_time - start_time],
                   << >>)

\* the try block of _response_merger_node
MergerTry(state, start_time, end_time) ==
    LET messages == Get(state, "messages", PyStr(<< >>))
        mcp_responses == Get(state, "mcp_responses", PyDict(EmptyDict))
        response_content == ResponseContent(messages)
    IN  IF Truthy(mcp_responses) /\ mcp_responses.tag # "dict"
        THEN Raise(E_StrHasNoGet, << >>)
        ELSE
        LET final_message ==
                IF /\ Truthy(mcp_responses)
                   /\ ~Truthy(Get(mcp_responses.val, "error", PyNone))
                THEN AIMessage(response_content)
                ELSE AIMessage(response_content)
        IN  Return([messages |-> final_message,
                    start_time |-> start_time,
                    end_time |-> end_time,
                    response_time_seconds |-> end_time - start_time],
                   << >>)

\* the except block returning before the timing is stamped
MergerExceptUntimed(e, start_time, end_time) ==
    [messages |-> AIMessage(T_ErrorMerging \o e)]

\* the except block of _response_merger_node
MergerExcept(e, start_time, end_time) ==
    [messages |-> AIMessage(T_ErrorMerging \o e),
     start_time |-> start_time,
     end_time |-> end_time,
     response_time_seconds |-> end_time - start_time]

ResponseMergerNode(state, start_time, end_time) ==
    LET r == MergerTry(state, start_time, end_time)
    IN  IF r.tag = "raise"
        THEN Return(MergerExcept(r.err, start_time, end_time), r.calls)
        ELSE r

(***************************************************************************)
(* The graph engine: the messages channel is reduced by add_messages, any  *)
(* other key of a node's update replaces the channel's value.              *)
(***************************************************************************)
\* whether convert_to_messages accepts x
Convertible(x) ==
    \/ x.tag = "msg"
    \/ x.tag = "str"
    \/ x.tag = "dict" /\ {"role", "content"} \subseteq DOMAIN x.val

\* the message convert_to_messages makes of x
Convert(x) ==
    CASE x.tag = "msg"  -> x
      [] x.tag = "str"  -> HumanMessage(x.val)
      [] x.tag = "dict" ->
            Message(IF x.val.role = "user" THEN "human" ELSE "ai", x.val.content)

\* a single message or string written to the channel counts as a list of one
AsList(v) == IF v.tag = "list" THEN v.val ELSE << v >>

\* add_messages(left, right): right's messages appended to left
AddMessages(left, right) ==
    left \o [i \in DOMAIN AsList(right) |-> Convert(AsList(right)[i])]

CanAdd(right) == \A i \in DOMAIN AsList(right) : Convertible(AsList(right)[i])

\* the messages channel without its reducer: an update replaces the history
ApplyUpdateOverwriting(state, update) ==
    [k \in DOMAIN state \cup DOMAIN update |->
        IF k = "messages" /\ k \in DOMAIN update
        THEN PyList(AddMessages(<< >>, update.messages))
        ELSE IF k \in DOMAIN update THEN update[k] ELSE state[k]]

\* the timing channels keeping the value first written to them
ApplyUpdateKeepingTimes(state, update) ==
    [k \in DOMAIN state \cup DOMAIN update |->
        IF k = "messages" /\ k \in DOMAIN update
        THEN PyList(AddMessages(state.messages.val, update.messages))
        ELSE IF k \in {"start_time", "end_time", "response_time_seconds"}
                /\ k \in DOMAIN state
        THEN state[k]
        ELSE IF k \in DOMAIN update THEN update[k] ELSE state[k]]

\* the channels after a node's update
ApplyUpdate(state, update) ==
    [k \in DOMAIN state \cup DOMAIN update |->
        IF k = "messages" /\ k \in DOMAIN update
        THEN PyList(AddMessages(state.messages.val, update.messages))
        ELSE IF k \in DOMAIN update THEN update[k] ELSE state[k]]

\* the channels of a state that was not built by the engine, after a node's
\* update: add_messages converts what is there before it appends
MergedState(state, update) ==
    LET left == AddMessages(<< >>, Get(state, "messages", PyList(<< >>)))
    IN  [k \in DOMAIN state \cup DOMAIN update |->
            IF k = "messages" /\ k \in DOMAIN update
            THEN PyList(AddMessages(left, update.messages))
            ELSE IF k \in DOMAIN update THEN update[k] ELSE state[k]]

\* set_entry_point
EntryPoint == "selecting"

\* the edge from mcp_executor to response_merger is missing: the run ends there
EdgeWithoutMerge(node) ==
    CASE node = "mcp_selector"     -> "routing"
      [] node = "mcp_executor"     -> "done"
      [] node = "fallback_chatbot" -> "merging"
      [] node = "response_merger"  -> "done"

\* add_edge, and the edge from mcp_selector to its conditional branch: the
\* step that follows a node
Edge(node) ==
    CASE node = "mcp_selector"     -> "routing"
      [] node = "mcp_executor"     -> "merging"
      [] node = "fallback_chatbot" -> "merging"
      [] node = "response_merger"  -> "done"

\* add_conditional_edges: the step a route decision leads to
Branch(decision) ==
    CASE decision = "use_mcp"      -> "executing"
      [] decision = "use_fallback" -> "responding"

\* the error state without its error field
ErrorStateUnflagged(e) ==
    [messages |-> AIMessage(T_ErrorInAgenticChatbot \o e)]

\* what invoke returns, and stream yields, when the graph raises
ErrorState(e) ==
    [messages |-> AIMessage(T_ErrorInAgenticChatbot \o e),
     error |-> PyStr(e)]

(***************************************************************************)
(* What the collaborators may answer.                                      *)
(***************************************************************************)
LlmRaise(e) == [kind |-> "raise", err |-> e]

LlmReturn(response) == [kind |-> "return", response |-> response]

\* the selection model call: an exception, a message, or a bare string
SelectorLlm ==
    {LlmRaise(E_Timeout)}
        \cup {LlmReturn(AIMessage(t)) : t \in AnalysisTexts}
        \cup {LlmReturn(PyStr(A_NoMarker))}

\* the general-purpose model call: an exception, a message, a mapping with a
\* content key, or a bare string
FallbackLlm ==
    {LlmRaise(E_Timeout), LlmReturn(AIMessage(R_Hi)),
     LlmReturn(PyDict([content |-> R_Hi])), LlmReturn(PyStr(R_Hi))}

Range(s) == {s[i] : i \in DOMAIN s}

NotCalled == [kind |-> "none", invoked |-> << >>]

\* client.get_tools() on the services of server_config: one of them fails,
\* or all answer, with their tools or with none
DiscoverOutcomes(server_config) ==
    IF server_config = << >> THEN {NotCalled}
    ELSE {[kind |-> "raise", err |-> E_Refused, at |-> s] :
                s \in Range(server_config)}
         \cup {[kind |-> "tools", tools |-> AllTools(server_config)],
               [kind |-> "tools", tools |-> << >>]}

\* agent.ainvoke: it raises, or returns its messages (possibly none) after
\* invoking some of the tools
AgentOutcomes(discover) ==
    IF discover.kind # "tools" \/ discover.tools = << >> THEN {NotCalled}
    ELSE {[kind |-> "raise", err |-> E_Timeout, invoked |-> << >>],
          [kind |-> "return", messages |-> << >>, invoked |-> << >>],
          [kind |-> "return", messages |-> << AIMessage(R_Sunny) >>,
           invoked |-> << >>],
          [kind |-> "return", messages |-> << AIMessage(R_Sunny) >>,
           invoked |-> << discover.tools[1] >>]}

ExecutorEnvs(state) ==
    LET selected_servers ==
            Get(state, "selected_servers", PyList(<< T_restaurant >>))
        server_config ==
            IF selected_servers.tag = "list"
            THEN ServerConfig(selected_servers.val)
            ELSE << >>
    IN  UNION {{[discover |-> d, agent |-> a] : a \in AgentOutcomes(d)} :
                    d \in DiscoverOutcomes(server_config)}

(***************************************************************************)
(* The states a caller may pass in.                                        *)
(***************************************************************************)
\* the turns a request's history is made of; the last one is no message
GraphMessages ==
    {HumanMessage(Q_Weather), HumanMessage(Q_Multi), HumanMessage(Q_Hello),
     AIMessage(R_Earlier), PyOther}

Histories == UNION {[1..n -> GraphMessages] : n \in 0..MaxHist}

\* what invoke and stream are called with
GraphInputs == {[messages |-> PyList(h)] : h \in Histories}

Absent == [tag |-> "absent"]

Opt(key, v) == IF v = Absent THEN EmptyDict ELSE [k \in {key} |-> v]

DirectMessages ==
    {Absent, PyStr(R_Ok), PyList(<< >>),
     PyList(<< HumanMessage(Q_Weather) >>),
     PyList(<< HumanMessage(Q_Multi), AIMessage(R_Earlier) >>),
     PyList(<< PyDict([content |-> R_Ok]) >>),
     PyList(<< HumanMessage(Q_Hello), PyStr(Q_Sushi) >>),
     PyList(<< PyOther >>)}

DirectSelected ==
    {Absent, PyNone, PyList(<< >>), PyList(<< T_hotel >>),
     PyList(<< T_restaurant >>), PyList(<< T_hotel, T_weather >>),
     PyList(<< T_parking, T_weather, T_parking >>)}

DirectResponses ==
    {Absent, PyNone, PyDict(EmptyDict),
     PyDict([selected_servers |-> PyList(<< T_weather >>),
             tools_used |-> PyList(<< "get_weather_summary" >>),
             response |-> PyStr(R_Sunny)]),
     PyDict([error |-> PyStr(E_Refused)]),
     PyStr(R_Ok)}

\* what a node called on its own (as the modules' __main__ blocks do) may get
DirectInputs ==
    {Opt("messages", m) @@ Opt("selected_servers", s) @@ Opt("mcp_responses", r) :
        m \in DirectMessages, s \in DirectSelected, r \in DirectResponses}

(***************************************************************************)
(* The state machine.                                                      *)
(***************************************************************************)
VARIABLES
    entry,      \* the method the caller called
    pc,         \* the step that runs next
    state,      \* the conversation state (the graph's channels)
    now,        \* the clock
    trace,      \* the nodes that ran, in order
    out,        \* what the last node returned or raised
    route,      \* the last route decision
    result,     \* what invoke returned
    chunks,     \* what stream yielded
    io,         \* the external calls made, in order
    request,    \* the state the caller passed in
    again,      \* what a second run of the merge step returned
    shared,     \* the tables in the fields of the instance's nodes
    reqs        \* the requests one instance handles concurrently

vars ==
    << entry, pc, state, now, trace, out, route, result, chunks, io,
       request, again, shared, reqs >>

GraphEntries == {"invoke", "stream"}

\* the node a direct call runs
DirectEntries ==
    [selector |-> "selecting", route |-> "routing", executor |-> "executing",
     fallback |-> "responding", merger |-> "merging"]

Nothing == [tag |-> "none"]

Init ==
    /\ entry \in GraphEntries \cup DOMAIN DirectEntries
    /\ IF entry \in GraphEntries
       THEN pc = "start" /\ state \in GraphInputs
       ELSE pc = DirectEntries[entry] /\ state \in DirectInputs
    /\ now = 0
    /\ trace = << >>
    /\ out = Nothing
    /\ route = "none"
    /\ result = Nothing
    /\ chunks = << >>
    /\ io = << >>
    /\ request = state
    /\ again = Nothing
    /\ shared = ShippedTables
    /\ reqs = << >>

\* the except block of stream ending the stream without an item
EngineFailureSilent(e) ==
    /\ pc' = "done"
    /\ result' = IF entry = "invoke" THEN Return(ErrorState(e), << >>) ELSE result
    /\ chunks' = chunks

\* an exception escapes the graph: the except blocks of invoke and of stream
EngineFailure(e) ==
    /\ pc' = "done"
    /\ result' = IF entry = "invoke" THEN Return(ErrorState(e), << >>) ELSE result
    /\ chunks' = IF entry = "stream" THEN Append(chunks, ErrorState(e)) ELSE chunks

\* graph.invoke / graph.stream write the input through the channels' reducers
GraphStart ==
    /\ pc = "start"
    /\ IF CanAdd(state.messages)
       THEN /\ state' = [messages |-> PyList(AddMessages(<< >>, state.messages))]
            /\ pc' = EntryPoint
            /\ UNCHANGED << result, chunks >>
       ELSE /\ EngineFailure(E_BadMessage)
            /\ UNCHANGED state
    /\ UNCHANGED << entry, now, trace, out, route, io, request, again,
                    shared, reqs >>

\* one node has run with outcome r: the engine applies its update, yields it
\* in stream mode, and moves on; a direct call just returns
NodeDone(name, r) ==
    /\ out' = r
    /\ trace' = Append(trace, name)
    /\ io' = io \o r.calls
    /\ IF entry \in GraphEntries
       THEN IF r.tag = "raise" \/ ~CanAdd(r.val.messages)
            THEN /\ EngineFailure(IF r.tag = "raise" THEN r.err ELSE E_BadMessage)
                 /\ UNCHANGED state
            ELSE /\ state' = ApplyUpdate(state, r.val)
                 /\ pc' = Edge(name)
                 /\ chunks' = IF entry = "stream"
                              THEN Append(chunks, [node |-> name, update |-> r.val])
                              ELSE chunks
                 /\ result' = IF entry = "invoke" /\ Edge(name) = "done"
                              THEN Return(ApplyUpdate(state, r.val), << >>)
                              ELSE result
       ELSE /\ pc' = "done"
            /\ UNCHANGED << state, result, chunks >>
    /\ shared' = SharedAfter(name, shared, state)
    /\ UNCHANGED << entry, route, request, again, reqs >>

\* _mcp_selector_node
McpSelectorNode ==
    /\ pc = "selecting"
    /\ \E llm \in SelectorLlm, d \in 0..MaxTick :
        /\ now' = now + d
        /\ \E r \in {SelectorProcess(state, llm, now, now + d)} :
                NodeDone("mcp_selector", r)

\* the conditional edge out of mcp_selector
RouteDecision ==
    /\ pc = "routing"
    /\ route' = ShouldUseMcp(state)
    /\ pc' = IF entry \in GraphEntries THEN Branch(ShouldUseMcp(state)) ELSE "done"
    /\ UNCHANGED << entry, state, now, trace, out, result, chunks, io,
                    request, again, shared, reqs >>

\* _mcp_executor_node
McpExecutorNode ==
    /\ pc = "executing"
    /\ \E env \in ExecutorEnvs(state), d \in 0..MaxTick :
        /\ now' = now + d
        /\ \E r \in {ExecuteWith(shared.server_configs, state, env,
                                   now, now + d)} :
                NodeDone("mcp_executor", r)

\* _fallback_chatbot_node
FallbackChatbotNode ==
    /\ pc = "responding"
    /\ \E llm \in FallbackLlm, d \in 0..MaxTick :
        /\ now' = now + d
        /\ \E r \in {BasicChatbotProcess(state, llm, now, now + d)} :
                NodeDone("fallback_chatbot", r)

\* _response_merger_node, and the edge to END
ResponseMerger ==
    /\ pc = "merging"
    /\ \E d \in 0..MaxTick :
        /\ now' = now + d
        /\ \E r \in {ResponseMergerNode(state, now, now + d)} :
                NodeDone("response_merger", r)

\* the caller of the merge step applies its result to the state and runs
\* the merge step on the merged state once more
MergeAgain ==
    /\ entry = "merger"
    /\ pc = "done"
    /\ again = Nothing
    /\ out.tag = "return"
    /\ CanAdd(Get(state, "messages", PyList(<< >>)))
    /\ \E d \in 0..MaxTick :
        /\ now' = now + d
        /\ again' = ResponseMergerNode(MergedState(state, out.val), now, now + d)
    /\ UNCHANGED << entry, pc, state, trace, out, route, result, chunks, io,
                    request, shared, reqs >>

Next ==
    \/ GraphStart
    \/ McpSelectorNode
    \/ RouteDecision
    \/ McpExecutorNode
    \/ FallbackChatbotNode
    \/ ResponseMerger
    \/ MergeAgain

Spec == Init /\ [][Next]_vars

(***************************************************************************)
(* Two requests handled at the same time by one instance: each runs the    *)
(* graph through invoke on its own state, the steps of the two interleave  *)
(* in any order, and both read the instance's tables.                      *)
(***************************************************************************)
Requests == {1, 2}

\* what the two callers pass in
ConcInputs ==
    {[messages |-> PyList(<< HumanMessage(Q_Multi) >>)],
     [messages |-> PyList(<< HumanMessage(Q_Hello) >>)]}

\* what the selection model answers them
ConcLlm ==
    {LlmRaise(E_Timeout), LlmReturn(AIMessage(A_Order)),
     LlmReturn(PyStr(A_NoMarker))}

\* the variables of a single request, which stay as they are here
single ==
    << entry, pc, state, now, trace, out, route, result, chunks, io,
       request, again >>

ConcInit ==
    /\ reqs \in [Requests ->
                    {[pc |-> "start", request |-> s, state |-> s,
                      io |-> << >>, result |-> Nothing] : s \in ConcInputs}]
    /\ shared = ShippedTables
    /\ entry = "none"
    /\ pc = "done"
    /\ state = EmptyDict
    /\ now = 0
    /\ trace = << >>
    /\ out = Nothing
    /\ route = "none"
    /\ result = Nothing
    /\ chunks = << >>
    /\ io = << >>
    /\ request = EmptyDict
    /\ again = Nothing

\* the request after the engine has taken a node's outcome: the update is
\* applied and the edge followed, or invoke returns the error state
Advanced(r, name, o) ==
    IF o.tag = "raise" \/ ~CanAdd(o.val.messages)
    THEN [r EXCEPT !.pc = "done",
                   !.io = r.io \o o.calls,
                   !.result = Return(ErrorState(IF o.tag = "raise" THEN o.err
                                                ELSE E_BadMessage), << >>)]
    ELSE [r EXCEPT !.pc = Edge(name),
                   !.state = ApplyUpdate(r.state, o.val),
                   !.io = r.io \o o.calls,
                   !.result = IF Edge(name) = "done"
                              THEN Return(ApplyUpdate(r.state, o.val), << >>)
                              ELSE r.result]

\* graph.invoke writes request i's input through the reducers
ConcStart(i) ==
    /\ reqs[i].pc = "start"
    /\ reqs' = [reqs EXCEPT ![i] =
            IF CanAdd(reqs[i].state.messages)
            THEN [reqs[i] EXCEPT
                    !.pc = EntryPoint,
                    !.state = [messages |->
                        PyList(AddMessages(<< >>, reqs[i].state.messages))]]
            ELSE [reqs[i] EXCEPT
                    !.pc = "done",
                    !.result = Return(ErrorState(E_BadMessage), << >>)]]
    /\ UNCHANGED << shared, single >>

\* _mcp_selector_node for request i
ConcSelector(i) ==
    /\ reqs[i].pc = "selecting"
    /\ \E llm \in ConcLlm :
        \E o \in {SelectorProcess(reqs[i].state, llm, now, now)} :
            reqs' = [reqs EXCEPT ![i] = Advanced(reqs[i], "mcp_selector", o)]
    /\ shared' = SharedAfter("mcp_selector", shared, reqs[i].state)
    /\ UNCHANGED single

\* the conditional edge for request i
ConcRoute(i) ==
    /\ reqs[i].pc = "routing"
    /\ reqs' = [reqs EXCEPT ![i].pc = Branch(ShouldUseMcp(reqs[i].state))]
    /\ UNCHANGED << shared, single >>

\* _mcp_executor_node or _fallback_chatbot_node for request i, as routed
ConcAnswer(i) ==
    /\ reqs[i].pc \in {"executing", "responding"}
    /\ IF reqs[i].pc = "executing"
       THEN /\ \E env \in ExecutorEnvs(reqs[i].state) :
                \E o \in {ExecuteWith(shared.server_configs, reqs[i].state,
                                       env, now, now)} :
                    reqs' = [reqs EXCEPT ![i] =
                                Advanced(reqs[i], "mcp_executor", o)]
            /\ shared' = SharedAfter("mcp_executor", shared, reqs[i].state)
       ELSE /\ \E llm \in FallbackLlm :
                \E o \in {BasicChatbotProcess(reqs[i].state, llm, now, now)} :
                    reqs' = [reqs EXCEPT ![i] =
                                Advanced(reqs[i], "fallback_chatbot", o)]
            /\ shared' = SharedAfter("fallback_chatbot", shared, reqs[i].state)
    /\ UNCHANGED single

\* _response_merger_node for request i, and the edge to END
ConcMerger(i) ==
    /\ reqs[i].pc = "merging"
    /\ \E o \in {ResponseMergerNode(reqs[i].state, now, now)} :
            reqs' = [reqs EXCEPT ![i] = Advanced(reqs[i], "response_merger", o)]
    /\ shared' = SharedAfter("response_merger", shared, reqs[i].state)
    /\ UNCHANGED single

ConcNext ==
    \E i \in Requests :
        \/ ConcStart(i)
        \/ ConcSelector(i)
        \/ ConcRoute(i)
        \/ ConcAnswer(i)
        \/ ConcMerger(i)

ConcSpec == ConcInit /\ [][ConcNext]_vars

(***************************************************************************)
(* Properties.                                                             *)
(***************************************************************************)
InGraph == entry \in GraphEntries

\* the node that ran last, "none" before any has
LastNode == IF trace = << >> THEN "none" ELSE trace[Len(trace)]

IsPrefix(s, t) == Len(s) <= Len(t) /\ SubSeq(t, 1, Len(s)) = s

\* the two node sequences the graph allows
FullRuns ==
    {<< "mcp_selector", "mcp_executor", "response_merger" >>,
     << "mcp_selector", "fallback_chatbot", "response_merger" >>}

\* C1: in a run of the workflow the nodes execute as mcp_selector, then
\* exactly one of mcp_executor and fallback_chatbot, then response_merger,
\* then END: at every moment the nodes run so far are a prefix of one of the
\* two full sequences (so no node runs twice and never both branches), and a
\* run that has ended after entering the graph has run the whole sequence.
C1_NodeSequence ==
    InGraph =>
        /\ \E full \in FullRuns : IsPrefix(trace, full)
        /\ (pc = "done" /\ trace # << >>) => trace \in FullRuns
        /\ (pc = "routing") => trace = << "mcp_selector" >>
        /\ (pc \in {"executing", "responding"}) => trace = << "mcp_selector" >>
        /\ (pc = "merging") => Len(trace) = 2

\* a run through the graph has reached END
C1_Witness ==
    /\ InGraph
    /\ pc = "done"
    /\ trace = << "mcp_selector", "mcp_executor", "response_merger" >>

\* the terminal state of invoke: it has returned, either the error state with
\* its single message, or the final state whose last message is the one
\* message the merger returned
InvokeTerminal ==
    /\ pc = "done"
    /\ result.tag = "return"
    /\ IF "error" \in DOMAIN result.val
       THEN result.val.messages.tag = "msg"
       ELSE /\ LastNode = "response_merger"
            /\ out.tag = "return"
            /\ out.val.messages.tag = "msg"
            /\ result.val.messages.tag = "list"
            /\ result.val.messages.val # << >>
            /\ result.val.messages.val[Len(result.val.messages.val)]
                    = out.val.messages

\* how far a request has come
Rank(step) ==
    CASE step = "start"     -> 0
      [] step = "selecting" -> 1
      [] step = "routing"   -> 2
      [] step \in {"executing", "responding"} -> 3
      [] step = "merging"   -> 4
      [] step = "done"      -> 5

\* C2: provided every external call returns or fails (each node is one step
\* of the engine), every request started with invoke reaches the terminal
\* state with a single final message: every step takes the request strictly
\* further along start, selecting, routing, executing or responding, merging,
\* done (so there are at most five), a request that is not done always has a
\* step to take, and a request that is done has returned a terminal state.
C2_InvokeTerminates ==
    /\ [](entry = "invoke" =>
            IF pc = "done" THEN InvokeTerminal ELSE ENABLED Next)
    /\ [][entry = "invoke" => Rank(pc') > Rank(pc)]_vars

\* invoke has returned the final state of a run in which the executor failed
C2_Witness ==
    /\ entry = "invoke"
    /\ InvokeTerminal
    /\ "error" \notin DOMAIN result.val
    /\ "error" \in DOMAIN result.val.mcp_responses.val

\* C3: for every input state (any history, empty or missing) and every
\* outcome of the model call, process returns normally with a non-empty
\* selected_servers list and an analysis string.
C3_SelectorTotal ==
    (LastNode = "mcp_selector") =>
        /\ out.tag = "return"
        /\ out.val.selected_servers.tag = "list"
        /\ out.val.selected_servers.val # << >>
        /\ out.val.analysis.tag = "str"

\* the selector was called on a state without messages and answered
C3_Witness ==
    /\ LastNode = "mcp_selector"
    /\ "messages" \notin DOMAIN state
    /\ out.tag = "return"
    /\ out.val.selected_servers = PyList(<< T_restaurant >>)

Last(s) == s[Len(s)]

\* the last external call was made by the node that ran last and it failed
LastCallFailed(calls) ==
    /\ io # << >>
    /\ Last(io).call \in calls
    /\ Last(io).outcome.kind = "raise"

\* C4: when the selection model call itself fails, the selector falls back
\* to keyword matching on the query: it selects every domain one of whose
\* keywords occurs in the query (restaurant, parking, weather for "Find me a
\* restaurant with parking and check the weather") and the default domain
\* only when no keyword matches.
C4_KeywordFallbackOnModelFailure ==
    (LastNode = "mcp_selector" /\ LastCallFailed({"llm"})) =>
        /\ out.tag = "return"
        /\ out.val.selected_servers = PyList(KeywordSelection(Last(io).query))
        /\ (Last(io).query = Q_Multi) =>
                out.val.selected_servers
                    = PyList(<< T_restaurant, T_parking, T_weather >>)

\* the route the claim expects of the state
ExpectedRoute ==
    IF /\ "selected_servers" \in DOMAIN state
       /\ state.selected_servers.tag = "list"
       /\ state.selected_servers.val # << >>
    THEN "use_mcp"
    ELSE "use_fallback"

\* the route decision has just been taken on the current state
RouteTaken ==
    \/ InGraph /\ pc \in {"executing", "responding"}
    \/ entry = "route" /\ pc = "done"

\* C5: the route decision is "use_mcp" exactly when selected_servers is a
\* non-empty list and "use_fallback" otherwise (empty, None or absent),
\* whatever the other fields of the state are, and deciding leaves the state
\* as it was.
C5_RouteDecision ==
    /\ [](RouteTaken => route = ExpectedRoute)
    /\ [][pc = "routing" => state' = state]_vars

\* the decision was taken on a state whose selected_servers is None and that
\* has other fields
C5_Witness ==
    /\ entry = "route"
    /\ pc = "done"
    /\ route = "use_fallback"
    /\ "selected_servers" \in DOMAIN state
    /\ state.selected_servers = PyNone
    /\ "mcp_responses" \in DOMAIN state

\* C6: the executor never raises: for every input state and every failure of
\* discovery or of the reasoning loop it returns a textual answer under
\* messages and an mcp_responses record, which carries an error field
\* whenever something failed.
C6_ExecutorTotal ==
    (LastNode = "mcp_executor") =>
        /\ out.tag = "return"
        /\ {"messages", "mcp_responses"} \subseteq DOMAIN out.val
        /\ out.val.messages.tag \in {"msg", "str"}
        /\ out.val.mcp_responses.tag = "dict"
        /\ LastCallFailed({"get_tools", "agent"}) =>
                "error" \in DOMAIN out.val.mcp_responses.val

\* the executor was called with selected_servers None and answered with an
\* error record
C6_Witness ==
    /\ entry = "executor"
    /\ pc = "done"
    /\ "selected_servers" \in DOMAIN state
    /\ state.selected_servers = PyNone
    /\ out.tag = "return"
    /\ "error" \in DOMAIN out.val.mcp_responses.val

\* C7: on every path of the merger, the exception path included, the result
\* holds exactly one message (one AI turn, not a list) and start_time,
\* end_time and response_time_seconds, with end_time >= start_time and a
\* duration >= 0.
C7_MergerResult ==
    (LastNode = "response_merger") =>
        /\ out.tag = "return"
        /\ DOMAIN out.val
              = {"messages", "start_time", "end_time", "response_time_seconds"}
        /\ out.val.messages.tag = "msg"
        /\ out.val.messages.role = "ai"
        /\ out.val.end_time >= out.val.start_time
        /\ out.val.response_time_seconds >= 0

\* the merger took its exception path while the clock advanced
C7_Witness ==
    /\ LastNode = "response_merger"
    /\ out.tag = "return"
    /\ StartsWith(out.val.messages.content, T_ErrorMerging)
    /\ out.val.end_time > out.val.start_time

\* the messages and the mcp_responses the merger was called with
MergerMessages ==
    IF InGraph
    THEN PyList(SubSeq(state.messages.val, 1, Len(state.messages.val) - 1))
    ELSE Get(state, "messages", PyStr(<< >>))

MergerResponses == Get(state, "mcp_responses", PyDict(EmptyDict))

\* the text of one turn
TextOf(m) ==
    CASE m.tag = "msg" -> m.content
      [] m.tag = "dict" /\ "content" \in DOMAIN m.val -> m.val.content
      [] OTHER -> Str(m)

\* the merge step itself raises: mcp_responses is neither empty nor a mapping
MergeRaises == MergerResponses.tag \notin {"none", "dict"}

\* C8: the merger's final text is the content of the last message of the
\* state, verbatim, whether mcp_responses is present without error, absent or
\* empty, or carries an error; "Error merging response: ..." appears only
\* when the merge step itself raised.
C8_MergerVerbatim ==
    (LastNode = "response_merger") =>
        /\ out.tag = "return"
        /\ (~MergeRaises /\ MergerMessages.tag = "list"
                /\ MergerMessages.val # << >>) =>
                out.val.messages.content = TextOf(Last(MergerMessages.val))
        /\ StartsWith(out.val.messages.content, T_ErrorMerging) => MergeRaises

\* the merger ran after the executor had failed and kept the executor's answer
C8_Witness ==
    /\ InGraph
    /\ LastNode = "response_merger"
    /\ "error" \in DOMAIN MergerResponses.val
    /\ StartsWith(out.val.messages.content, T_ErrorExecutingMcp)
    /\ out.val.messages.content = Last(MergerMessages.val).content

\* the state invoke returns and stream yields for an exception
IsErrorState(s) ==
    /\ {"messages", "error"} \subseteq DOMAIN s
    /\ s.error.tag = "str"
    /\ s.messages.tag = "msg"
    /\ StartsWith(s.messages.content, T_ErrorInAgenticChatbot)

\* the run ended without reaching the merger: an exception escaped the graph
GraphRaised == InGraph /\ pc = "done" /\ LastNode # "response_merger"

\* C9: neither invoke nor stream lets an exception through: when one escapes
\* the graph, invoke returns, and stream yields as its last item, a state
\* with an error field and a message "Error in agentic chatbot: ...".
C9_ErrorsCaught ==
    /\ (entry = "invoke" /\ pc = "done") => result.tag = "return"
    /\ (GraphRaised /\ entry = "invoke") => IsErrorState(result.val)
    /\ (GraphRaised /\ entry = "stream") =>
            chunks # << >> /\ IsErrorState(Last(chunks))

\* stream has ended with the error item
C9_Witness ==
    /\ entry = "stream"
    /\ GraphRaised
    /\ chunks # << >>
    /\ "error" \in DOMAIN Last(chunks)

\* C10: when the general-purpose model call fails, the fallback responder
\* does not raise: it returns a result whose message is an error text.
C10_FallbackNeverRaises ==
    (LastNode = "fallback_chatbot") =>
        /\ out.tag = "return"
        /\ out.val.messages.tag = "msg"

\* the caller's history as the engine stores it
History ==
    [i \in DOMAIN request.messages.val |->
        IF Convertible(request.messages.val[i])
        THEN Convert(request.messages.val[i])
        ELSE request.messages.val[i]]

\* m is the caller's history followed by one turn for each node that ran
Grown(m) ==
    /\ m.tag = "list"
    /\ IsPrefix(History, m.val)
    /\ Len(m.val) = Len(History) + Len(trace)

\* C11 as claimed: the history is append-only across the workflow: it is the
\* caller's history followed by one turn for each node that has completed,
\* and every terminal state invoke returns holds the caller's n turns
\* followed by three more.
C11_HistoryAppendOnly ==
    InGraph =>
        /\ (pc \notin {"start", "done"}) => Grown(state.messages)
        /\ (entry = "invoke" /\ pc = "done") =>
                /\ result.tag = "return"
                /\ Len(trace) = 3
                /\ Grown(result.val.messages)

\* C11 as amended: as long as no exception has escaped the graph, every node
\* that completes leaves the previous message list as a prefix of the new one
\* and appends exactly one turn, and the final state invoke returns holds the
\* caller's n turns followed by three more; when an exception escapes the
\* graph, the state invoke returns holds the single error message in place of
\* the history.
C11_HistoryAppendOnlyUnlessRaised ==
    /\ [](InGraph =>
            /\ (pc # "start" /\ ~GraphRaised) => Grown(state.messages)
            /\ (entry = "invoke" /\ pc = "done" /\ ~GraphRaised) =>
                    /\ Len(trace) = 3
                    /\ Grown(result.val.messages)
            /\ (entry = "invoke" /\ GraphRaised) =>
                    result.val.messages.tag = "msg")
    /\ [][(InGraph /\ pc # "start" /\ trace' # trace /\ ~GraphRaised') =>
            /\ IsPrefix(state.messages.val, state'.messages.val)
            /\ Len(state'.messages.val) = Len(state.messages.val) + 1]_vars

\* invoke has returned a final state of five turns for a history of two
C11_Witness ==
    /\ entry = "invoke"
    /\ pc = "done"
    /\ ~GraphRaised
    /\ Len(History) = 2
    /\ Len(result.val.messages.val) = 5

\* C12: once the selector has written selected_servers, no later step
\* changes it: the route decision sees the value the selector returned, every
\* later step of the run leaves it as it is (the executor, the fallback
\* responder and the merger return no selected_servers of their own, and
\* stream yields none after the selector's), and the final state invoke
\* returns carries it.
C12_SelectedServersFrozen ==
    /\ [](InGraph =>
            /\ (pc = "routing") =>
                    state.selected_servers = out.val.selected_servers
            /\ (entry = "invoke" /\ pc = "done" /\ ~GraphRaised) =>
                    result.val.selected_servers = state.selected_servers
            /\ (LastNode # "mcp_selector" /\ out.tag = "return") =>
                    "selected_servers" \notin DOMAIN out.val
            /\ \A i \in 2..Len(chunks) :
                    "update" \in DOMAIN chunks[i] =>
                        "selected_servers" \notin DOMAIN chunks[i].update)
    /\ [][(InGraph /\ "selected_servers" \in DOMAIN state) =>
            /\ "selected_servers" \in DOMAIN state'
            /\ state'.selected_servers = state.selected_servers]_vars

\* invoke has returned the selector's two servers after the executor failed
C12_Witness ==
    /\ entry = "invoke"
    /\ pc = "done"
    /\ ~GraphRaised
    /\ result.val.selected_servers = PyList(<< T_restaurant, T_weather >>)
    /\ "error" \in DOMAIN result.val.mcp_responses.val

\* the node that ran last was interrupted in its last external call: the call
\* timed out or was cancelled and raised
Interrupted ==
    /\ LastNode \in {"mcp_selector", "mcp_executor", "fallback_chatbot"}
    /\ out.calls # << >>
    /\ Last(out.calls).outcome.kind = "raise"

\* C13: a component interrupted in a network call (the selection model call,
\* tool discovery, the reasoning loop, the fallback model call) still returns
\* a well-formed result, flagged as an error where the result has a field for
\* it (the selector's analysis, the executor's mcp_responses), and the state
\* takes the whole of that result, never a part of it.
C13_InterruptedCallDelivers ==
    Interrupted =>
        /\ out.tag = "return"
        /\ out.val.messages.tag = "msg"
        /\ (LastNode = "mcp_selector") =>
                StartsWith(out.val.analysis.val, T_ErrorColon)
        /\ (LastNode = "mcp_executor") =>
                "error" \in DOMAIN out.val.mcp_responses.val
        /\ InGraph =>
                /\ Last(state.messages.val) = out.val.messages
                /\ \A k \in DOMAIN out.val \ {"messages"} : state[k] = out.val[k]

\* C15: running the merge step again on the merged state does not change
\* the content: the text of the second final message equals the text of the
\* first, whatever the state held and whichever path the first merge took.
C15_MergeTwiceSameContent ==
    (again # Nothing) =>
        /\ again.tag = "return"
        /\ again.val.messages.tag = "msg"
        /\ again.val.messages.content = out.val.messages.content

\* the merge step ran twice on a state with a successful mcp_responses and
\* selected servers
C15_Witness ==
    /\ again # Nothing
    /\ MergerResponses.tag = "dict"
    /\ "response" \in DOMAIN MergerResponses.val
    /\ Truthy(Get(state, "selected_servers", PyNone))
    /\ again.val.messages.content = R_Earlier

\* the selector ran on this query and the model's answer named no known
\* server, so that the keyword catalog decided
KeywordsDecided(query) ==
    /\ LastNode = "mcp_selector"
    /\ out.calls # << >>
    /\ out.calls[1].query = query
    /\ out.calls[1].outcome = LlmReturn(PyStr(A_NoMarker))

\* C16: for the query "What's the weather like?" keyword-based selection
\* yields exactly [weather], the one domain the query names, and the route
\* decision on the selector's result is the services route.
C16_WeatherQuerySelectsWeather ==
    KeywordsDecided(Q_Weather) =>
        /\ out.tag = "return"
        /\ out.val.selected_servers = PyList(<< T_weather >>)
        /\ ShouldUseMcp(out.val) = "use_mcp"

\* the request came with an empty message history
EmptyHistory ==
    /\ entry \in GraphEntries \cup {"selector"}
    /\ "messages" \in DOMAIN request
    /\ request.messages = PyList(<< >>)

\* the outcome of the selection model call names no known server: the call
\* failed, or its text has no RELEVANT_SERVERS line with a known name
NamesNoServer(outcome) ==
    \/ outcome.kind = "raise"
    \/ LET text == IF HasContent(outcome.response)
                   THEN outcome.response.content
                   ELSE Str(outcome.response)
       IN  \/ ~Contains(text, T_Marker)
           \/ StructuredSelection(Split(text, << "\n" >>)) = << >>

\* C17: with an empty message history the selector extracts the empty string
\* as the query, and when the model names no server the default domain
\* (restaurant) is selected since no keyword matches; the workflow then runs
\* through the executor and the merger to the terminal state without an
\* engine-level error.
C17_EmptyHistoryCompletes ==
    EmptyHistory =>
        /\ (LastNode = "mcp_selector") =>
                /\ out.tag = "return"
                /\ out.calls[1].query = << >>
                /\ NamesNoServer(out.calls[1].outcome) =>
                        out.val.selected_servers = PyList(<< T_restaurant >>)
        /\ route # "use_fallback"
        /\ (InGraph /\ pc = "done") =>
                /\ trace = << "mcp_selector", "mcp_executor", "response_merger" >>
                /\ (entry = "invoke") => "error" \notin DOMAIN result.val

\* invoke has returned for an empty history after the keyword catalog decided
C17_Witness ==
    /\ entry = "invoke"
    /\ pc = "done"
    /\ request.messages = PyList(<< >>)
    /\ io[1].outcome = LlmReturn(PyStr(A_NoMarker))
    /\ result.val.selected_servers = PyList(<< T_restaurant >>)
    /\ Len(result.val.messages.val) = 3

\* C18: when a selected service is unreachable (discovery or the reasoning
\* loop fails), the executor returns mcp_responses with the error and an
\* answer "Error executing MCP servers: <error>", the run goes on to the
\* merger, and the merger returns one final message carrying that answer.
C18_UnreachableServiceAnswered ==
    /\ (LastNode = "mcp_executor" /\ Interrupted) =>
            /\ out.tag = "return"
            /\ "error" \in DOMAIN out.val.mcp_responses.val
            /\ out.val.mcp_responses.val.error
                    = PyStr(Last(out.calls).outcome.err)
            /\ out.val.messages
                    = AIMessage(T_ErrorExecutingMcp \o Last(out.calls).outcome.err)
            /\ InGraph => pc = "merging"
    /\ (InGraph /\ LastNode = "response_merger"
            /\ "error" \in DOMAIN state.mcp_responses.val) =>
            /\ pc = "done"
            /\ out.tag = "return"
            /\ out.val.messages
                    = AIMessage(T_ErrorExecutingMcp
                                    \o state.mcp_responses.val.error.val)
            /\ Last(state.messages.val) = out.val.messages

\* restaurant was selected, its service refused the connection, and the
\* merger has returned
C18_Witness ==
    /\ InGraph
    /\ LastNode = "response_merger"
    /\ state.selected_servers = PyList(<< T_restaurant >>)
    /\ Last(io).call = "get_tools"
    /\ Last(io).outcome.kind = "raise"
    /\ Last(io).outcome.at = "restaurant"
    /\ out.val.messages.content = T_ErrorExecutingMcp \o E_Refused

\* the route decision of a graph run has been taken for this query, and the
\* selection model had named no known server
GeneralQueryRouted(query) ==
    /\ InGraph
    /\ pc \in {"executing", "responding"}
    /\ io[1].query = query
    /\ io[1].outcome.kind = "return"
    /\ NamesNoServer(io[1].outcome)

\* C19: a general query for which no domain is relevant ("Hello, how are
\* you?": the model names no known server and no keyword occurs in it) is
\* routed to the fallback chatbot and not to the MCP executor.
C19_GeneralQueryToFallback ==
    GeneralQueryRouted(Q_Hello) =>
        /\ route = "use_fallback"
        /\ pc = "responding"

SoloRun(input, calls) ==
    IF ~CanAdd(input.messages)
    THEN Return(ErrorState(E_BadMessage), << >>)
    ELSE IF Len(calls) < 2 THEN Nothing
    ELSE
    LET s0 == [messages |-> PyList(AddMessages(<< >>, input.messages))]
        r1 == SelectorProcess(s0, calls[1].outcome, 0, 0)
        s1 == ApplyUpdate(s0, r1.val)
        env == [discover |-> calls[2].outcome,
                agent |-> IF Len(calls) >= 3 THEN calls[3].outcome
                          ELSE NotCalled]
        r2 == IF ShouldUseMcp(s1) = "use_mcp"
              THEN ExecuteMcpServersSync(s1, env, 0, 0)
              ELSE BasicChatbotProcess(s1, calls[2].outcome, 0, 0)
    IN  IF r2.tag = "raise" THEN Return(ErrorState(r2.err), << >>)
        ELSE LET s2 == ApplyUpdate(s1, r2.val)
                 r3 == ResponseMergerNode(s2, 0, 0)
             IN  Return(ApplyUpdate(s2, r3.val), << >>)

\* C14: requests handled concurrently by one instance do not interfere: no
\* step of a request writes the instance's tables (server_mappings,
\* server_configs), and under every interleaving the state invoke returns to
\* a request is the state it returns when the request runs alone and the
\* external calls answer the same.
C14_RequestsDoNotInterfere ==
    /\ [](\A i \in DOMAIN reqs :
            (reqs[i].pc = "done") =>
                reqs[i].result = SoloRun(reqs[i].request, reqs[i].io))
    /\ [](shared = ShippedTables)
    /\ [][shared' = shared]_vars

\* both requests have returned, one after selecting every service and one
\* after selecting the default only
C14_Witness ==
    /\ DOMAIN reqs = Requests
    /\ \A i \in Requests : reqs[i].pc = "done"
    /\ reqs[1].result.val.selected_servers
            = PyList(<< T_restaurant, T_parking, T_weather >>)
    /\ "response" \in DOMAIN reqs[1].result.val.mcp_responses.val
    /\ reqs[2].result.val.selected_servers = PyList(<< T_restaurant >>)

\* the text of the selection model's answer
AnalysisText(outcome) ==
    IF HasContent(outcome.response) THEN outcome.response.content
    ELSE Str(outcome.response)

\* the selector ran and the model's answer named a known server, so that the
\* structured parse decided
StructuredDecided ==
    /\ LastNode = "mcp_selector"
    /\ out.calls # << >>
    /\ out.calls[1].outcome.kind = "return"
    /\ ~NamesNoServer(out.calls[1].outcome)

\* the RELEVANT_SERVERS lines of a text
MarkerLines(text) ==
    {line \in Range(Split(text, << "\n" >>)) : StartsWith(Strip(line), T_Marker)}

\* the trimmed, lower-cased tokens of a line that are known domain names, in
\* the order of the line, each once
ListedDomains(line) ==
    LET tokens == Split(Strip(Split(line, T_Marker)[2]), << "," >>)
        names == [i \in DOMAIN tokens |-> Lower(Strip(tokens[i]))]
        known == {i \in DOMAIN names : names[i] \in Range(KnownServers)}
        first == {i \in known : \A j \in known : j < i => names[j] # names[i]}
        F[i \in 0..Len(names)] ==
            IF i = 0 THEN << >>
            ELSE IF i \in first THEN Append(F[i - 1], names[i]) ELSE F[i - 1]
    IN  F[Len(names)]

\* C21 as claimed: structured parsing keeps the tokens of the
\* RELEVANT_SERVERS line that, trimmed and lower-cased, equal a known domain
\* name, in the order in which the model listed them, without duplicates.
C21_StructuredAsListed ==
    StructuredDecided =>
        \E line \in MarkerLines(AnalysisText(out.calls[1].outcome)) :
            out.val.selected_servers = PyList(ListedDomains(line))

\* C21 as amended: structured parsing keeps the tokens of the
\* RELEVANT_SERVERS line that, trimmed and lower-cased, equal a known domain
\* name, without duplicates, and returns them in the fixed order restaurant,
\* parking, weather, whatever the order in which the model listed them.
C21_StructuredInFixedOrder ==
    StructuredDecided =>
        \E line \in MarkerLines(AnalysisText(out.calls[1].outcome)) :
            LET selected == out.val.selected_servers.val
            IN  /\ Range(selected) = Range(ListedDomains(line))
                /\ selected = SelectSeq(KnownServers,
                                        LAMBDA s : s \in Range(selected))

\* the model listed weather before restaurant and the selector returned
\* restaurant before weather
C21_Witness ==
    /\ StructuredDecided
    /\ out.calls[1].outcome = LlmReturn(AIMessage(A_Order))
    /\ out.val.selected_servers = PyList(<< T_restaurant, T_weather >>)

\* the selector ran and the model answered without naming a known server, so
\* that the keyword fallback decided
KeywordFallbackDecided ==
    /\ LastNode = "mcp_selector"
    /\ out.calls # << >>
    /\ out.calls[1].outcome.kind = "return"
    /\ NamesNoServer(out.calls[1].outcome)

\* the catalog rows with a keyword occurring in the lower-cased query
RowsNamed(query) ==
    {i \in DOMAIN server_mappings :
        \E k \in DOMAIN server_mappings[i].keywords :
            Contains(Lower(query), server_mappings[i].keywords[k])}

\* the position of a domain in the catalog
CatalogPosition(name) ==
    CHOOSE i \in DOMAIN server_mappings : server_mappings[i].name = name

\* C22: the keyword fallback is order-preserving and duplicate-free: each
\* domain appears at most once in the result even when several of its
\* keywords occur in the query, the domains appear in catalog order, and they
\* are the domains with a keyword in the query.
C22_KeywordFallbackOrdered ==
    KeywordFallbackDecided =>
        LET selected == out.val.selected_servers.val
            rows == RowsNamed(out.calls[1].query)
        IN  /\ \A i, j \in DOMAIN selected :
                   i < j => /\ selected[i] # selected[j]
                            /\ CatalogPosition(selected[i])
                                  < CatalogPosition(selected[j])
            /\ rows # {} =>
                   Range(selected) = {server_mappings[i].name : i \in rows}

\* a query with two restaurant keywords and keywords of the other domains
\* gave each domain once
C22_Witness ==
    /\ KeywordFallbackDecided
    /\ Cardinality({k \in DOMAIN server_mappings[1].keywords :
                       Contains(Lower(out.calls[1].query),
                                server_mappings[1].keywords[k])}) > 1
    /\ out.val.selected_servers
          = PyList(<< T_restaurant, T_parking, T_weather >>)

\* the text of the most recent user turn of a history: the content of the
\* latest human message (or role-less or user-role dict with a content key),
\* "" when there is none
RECURSIVE LatestUserText(_)
LatestUserText(messages) ==
    IF messages = << >> THEN << >>
    ELSE LET message == messages[Len(messages)]
             rest == SubSeq(messages, 1, Len(messages) - 1)
         IN  IF HasContent(message)
             THEN IF message.role = "human" THEN message.content
                  ELSE LatestUserText(rest)
             ELSE IF IsDictWithContent(message)
             THEN IF "role" \in DOMAIN message.val => message.val.role = "user"
                  THEN message.val.content
                  ELSE LatestUserText(rest)
             ELSE LatestUserText(rest)

\* the selector ran on a message list and asked the selection model
SelectorAsked ==
    /\ LastNode = "mcp_selector"
    /\ out.calls # << >>
    /\ "messages" \in DOMAIN request
    /\ request.messages.tag = "list"

\* C23: the query text used for selection is the text of the most recent user
\* turn of the history, also when the history ends with an assistant turn, and
\* it is the empty string when no turn has extractable content.
C23_QueryIsLatestUserTurn ==
    SelectorAsked => out.calls[1].query = LatestUserText(request.messages.val)

\* the text after the marker of a RELEVANT_SERVERS line, trimmed
Payload(line) == Strip(Split(line, T_Marker)[2])

\* the line gives its list in the form "[a, b, c]"
Bracketed(line) ==
    /\ Len(Payload(line)) >= 2
    /\ Payload(line)[1] = "["
    /\ Payload(line)[Len(Payload(line))] = "]"

\* the known domains listed between the brackets
BracketedDomains(line) ==
    LET tokens == Split(SubSeq(Payload(line), 2, Len(Payload(line)) - 1),
                        << "," >>)
    IN  {Lower(Strip(tokens[i])) : i \in DOMAIN tokens} \cap Range(KnownServers)

\* C24: when the model's RELEVANT_SERVERS line lists known domains in the
\* bracketed format of the selection prompt ("[a, b, c]"), the selector
\* selects every listed domain, not a strict subset of them.
C24_BracketedListSelected ==
    /\ LastNode = "mcp_selector"
    /\ out.calls # << >>
    /\ out.calls[1].outcome.kind = "return"
    => \A line \in MarkerLines(AnalysisText(out.calls[1].outcome)) :
          Bracketed(line) /\ BracketedDomains(line) # {} =>
              Range(out.val.selected_servers.val) = BracketedDomains(line)

\* the executor ran on a list of selected identifiers
ExecutorRanOnList ==
    /\ LastNode = "mcp_executor"
    /\ "selected_servers" \in DOMAIN state
    /\ state.selected_servers.tag = "list"

\* the identifiers the executor was given
Selected == state.selected_servers.val

\* the domain a configured service belongs to
DomainOf(service) ==
    CASE service = "restaurant" -> T_restaurant
      [] service = "Parking"    -> T_parking
      [] service = "Weather"    -> T_weather

\* the configured services whose domain is among the selected identifiers
ServicesSelected ==
    {service \in Range(server_configs) : DomainOf(service) \in Range(Selected)}

\* C25: a selected identifier that is no known domain is skipped without
\* error: when some selected identifier is a known domain, the services the
\* executor connects to are exactly those of the known ones, each once, and
\* execution proceeds normally (a failure comes only from a failed external
\* call or a missing message history, and a run in which discovery gives
\* tools and the reasoning loop returns ends with the success record).
C25_UnknownIdentifiersSkipped ==
    (ExecutorRanOnList /\ ServicesSelected # {}) =>
        /\ out.tag = "return"
        /\ out.calls # << >>
        /\ out.calls[1].call = "get_tools"
        /\ Range(out.calls[1].services) = ServicesSelected
        /\ Len(out.calls[1].services) = Cardinality(ServicesSelected)
        /\ "error" \in DOMAIN out.val.mcp_responses.val =>
                \/ Last(out.calls).outcome.kind = "raise"
                \/ "messages" \notin DOMAIN state
        /\ (Len(out.calls) = 2 /\ out.calls[2].outcome.kind = "return") =>
                /\ DOMAIN out.val.mcp_responses.val
                        = {"selected_servers", "tools_used", "response"}
                /\ out.val.mcp_responses.val.selected_servers
                        = state.selected_servers

\* hotel and weather were selected, only the weather service was contacted,
\* and the run ended with the success record
C25_Witness ==
    /\ ExecutorRanOnList
    /\ Selected = << T_hotel, T_weather >>
    /\ Len(out.calls) = 2
    /\ out.calls[1].services = << "Weather" >>
    /\ out.calls[2].outcome.kind = "return"
    /\ "error" \notin DOMAIN out.val.mcp_responses.val

\* C26: when no selected identifier is a known domain (an empty list or only
\* unknown identifiers), the executor returns, without connecting to any
\* service, the answer "No valid servers selected" with an empty mcp_responses
\* record (so without an error field) and the timing fields.
C26_NoValidServers ==
    (ExecutorRanOnList /\ ServicesSelected = {}) =>
        /\ out.calls = << >>
        /\ out.tag = "return"
        /\ DOMAIN out.val = {"messages", "mcp_responses", "start_time",
                             "end_time", "response_time_seconds"}
        /\ out.val.messages = PyStr(T_NoValidServers)
        /\ out.val.mcp_responses = PyDict(EmptyDict)
        /\ out.val.start_time <= out.val.end_time
        /\ out.val.end_time = now
        /\ out.val.response_time_seconds
                = out.val.end_time - out.val.start_time

\* only an unknown identifier was selected and the executor answered so
C26_Witness ==
    /\ ExecutorRanOnList
    /\ Selected = << T_hotel >>
    /\ io = << >>
    /\ out.val.messages = PyStr(T_NoValidServers)

\* the executor ran, discovery succeeded, and the combined tool set is empty
NoToolsDiscovered ==
    /\ LastNode = "mcp_executor"
    /\ out.calls # << >>
    /\ out.calls[1].call = "get_tools"
    /\ out.calls[1].outcome.kind = "tools"
    /\ out.calls[1].outcome.tools = << >>

\* C27: when tool discovery succeeds but the combined tool set is empty, the
\* executor returns the answer "No tools available from selected servers"
\* with an empty mcp_responses record (so without an error field) and never
\* starts the reasoning loop.
C27_NoToolsAvailable ==
    NoToolsDiscovered =>
        /\ Len(out.calls) = 1
        /\ \A i \in DOMAIN io : io[i].call # "agent"
        /\ out.tag = "return"
        /\ out.val.messages = PyStr(T_NoToolsAvailable)
        /\ out.val.mcp_responses = PyDict(EmptyDict)
        /\ out.val.response_time_seconds
                = out.val.end_time - out.val.start_time

\* the parking and weather services answered discovery without any tool and
\* the executor answered so
C27_Witness ==
    /\ NoToolsDiscovered
    /\ out.calls[1].services = << "Parking", "Weather" >>
    /\ out.val.messages = PyStr(T_NoToolsAvailable)

\* the executor ran, discovery gave tools and the reasoning loop returned
ExecutorSucceeded ==
    /\ LastNode = "mcp_executor"
    /\ Len(out.calls) = 2
    /\ out.calls[2].call = "agent"
    /\ out.calls[2].outcome.kind = "return"

\* C28: on success the executor's record lists, under tools_used, the
\* capabilities that were invoked during the reasoning loop (not merely those
\* that were discovered), together with the domains used and the raw answer
\* text.
C28_ToolsUsedAreInvoked ==
    ExecutorSucceeded =>
        /\ out.tag = "return"
        /\ out.val.mcp_responses.val.tools_used
                = PyList(out.calls[2].outcome.invoked)
        /\ out.val.mcp_responses.val.selected_servers
                = Get(state, "selected_servers", PyList(<< T_restaurant >>))
        /\ out.val.mcp_responses.val.response
                = PyStr(out.val.messages.content)

\* the selection the executor works on: the state's list, or the default
\* list of the code when the state has none
EffectiveSelection ==
    Get(state, "selected_servers", PyList(<< T_restaurant >>))

\* C29: the executor connects to and discovers tools from only the services
\* of the selected domains: in a whole request, every service named in a
\* discovery call belongs to a domain in selected_servers (the default
\* selection when the state has none), there is at most one discovery call,
\* and the reasoning loop is given the tools of that call only.
C29_OnlySelectedServicesContacted ==
    /\ \A i \in DOMAIN io :
          io[i].call = "get_tools" =>
            /\ EffectiveSelection.tag = "list"
            /\ \A service \in Range(io[i].services) :
                  DomainOf(service) \in Range(EffectiveSelection.val)
            /\ \A j \in DOMAIN io : io[j].call = "get_tools" => j = i
    /\ \A i \in DOMAIN io :
          io[i].call = "agent" =>
            /\ i > 1
            /\ io[i - 1].call = "get_tools"
            /\ io[i - 1].outcome.kind = "tools"
            /\ io[i].tools = io[i - 1].outcome.tools

\* in a graph run that selected weather alone, discovery was made on the
\* weather service alone and the reasoning loop has run
C29_Witness ==
    /\ InGraph
    /\ LastNode = "mcp_executor"
    /\ state.selected_servers = PyList(<< T_weather >>)
    /\ Len(out.calls) = 2
    /\ out.calls[1].services = << "Weather" >>
    /\ out.calls[2].tools = << "get_weather_summary" >>

\* the positions of the reasoning loop's calls in the request's log
AgentCalls == {i \in DOMAIN io : io[i].call = "agent"}

ShapeContent(response) ==
    CASE response.tag = "msg"  -> response.content
      [] response.tag = "dict" -> response.val.content
      [] response.tag = "str"  -> response.val

\* the fallback responder ran and its model call returned
FallbackAnswered ==
    /\ LastNode = "fallback_chatbot"
    /\ out.calls # << >>
    /\ Last(out.calls).outcome.kind = "return"

\* C31: the fallback responder turns each shape the model may return (object
\* with content, mapping with a content key, plain string) into one
\* conversational turn holding that content, and its result never contains an
\* mcp_responses record; so in a run of the workflow mcp_responses is present
\* in the state, and in what the caller gets, only after the executor ran.
C31_FallbackNormalizes ==
    /\ FallbackAnswered =>
          /\ out.tag = "return"
          /\ out.val.messages.tag = "msg"
          /\ out.val.messages.content
                = ShapeContent(Last(out.calls).outcome.response)
          /\ "mcp_responses" \notin DOMAIN out.val
    /\ (InGraph /\ "mcp_responses" \in DOMAIN state) =>
          "mcp_executor" \in Range(trace)
    /\ (InGraph /\ result # Nothing
            /\ "mcp_responses" \in DOMAIN result.val) =>
          "mcp_executor" \in Range(trace)

\* the model answered with a mapping and the responder returned one turn
\* with the mapping's content
C31_Witness ==
    /\ FallbackAnswered
    /\ Last(out.calls).outcome.response.tag = "dict"
    /\ out.val.messages = AIMessage(R_Hi)
    /\ DOMAIN out.val = {"messages", "start_time", "end_time",
                         "response_time_seconds"}

\* C32: the merger's extraction of the last message is tolerant and total: an
\* object with a content attribute yields that attribute, a plain mapping
\* with a "content" key yields that value verbatim, a bare string yields
\* itself, and anything else its string form ("7" for the integer 7, "[]"
\* for an empty message list), without raising.
C32_ExtractionTolerant ==
    (LastNode = "response_merger") =>
        /\ out.tag = "return"
        /\ out.val.messages.tag = "msg"
        /\ ~MergeRaises =>
            LET text == out.val.messages.content
                m == MergerMessages
            IN  /\ (m.tag = "list" /\ m.val # << >>) =>
                      LET last == Last(m.val)
                      IN  /\ last.tag = "msg" => text = last.content
                          /\ (last.tag = "dict" /\ "content" \in DOMAIN last.val)
                                => text = last.val.content
                          /\ last.tag = "str" => text = last.val
                          /\ last.tag = "int" => text = << "7" >>
                /\ m.tag = "str" => text = m.val
                /\ m = PyList(<< >>) => text = << "[", "]" >>

\* the merge step was given a list ending in the mapping {"content": "ok"}
\* and answered "ok"
C32_Witness ==
    /\ entry = "merger"
    /\ LastNode = "response_merger"
    /\ "messages" \in DOMAIN state
    /\ state.messages = PyList(<< PyDict([content |-> R_Ok]) >>)
    /\ out.val.messages = AIMessage(<< "o", "k" >>)

\* an item of the stream that reports an exception
IsErrorItem(item) == "error" \in DOMAIN item

\* the items of the stream that report a completed node
NodeItems == SelectSeq(chunks, LAMBDA item : ~IsErrorItem(item))

\* C33: in stream mode a normal run yields one item per completed node, in
\* execution order (selector, then executor or fallback, then merger); when
\* an exception escapes the graph, the items already yielded are followed by
\* exactly one error item and the stream ends.
C33_StreamItems ==
    (entry = "stream") =>
        /\ \A i \in DOMAIN chunks :
              IsErrorItem(chunks[i]) =>
                /\ i = Len(chunks)
                /\ pc = "done"
                /\ IsErrorState(chunks[i])
        /\ Len(NodeItems) <= Len(trace)
        /\ \A i \in DOMAIN NodeItems : NodeItems[i].node = trace[i]
        /\ \E run \in FullRuns : IsPrefix(trace, run)
        /\ pc # "done" => NodeItems = chunks /\ Len(chunks) = Len(trace)
        /\ pc = "done" =>
              \/ /\ chunks = NodeItems
                  /\ Len(chunks) = Len(trace)
                  /\ LastNode = "response_merger"
              \/ /\ chunks # << >>
                  /\ IsErrorItem(Last(chunks))
                  /\ LastNode # "response_merger"

\* a stream that ended normally after three items: selector, executor, merger
C33_Witness ==
    /\ entry = "stream"
    /\ pc = "done"
    /\ Len(chunks) = 3
    /\ [i \in 1..3 |-> chunks[i].node]
          = << "mcp_selector", "mcp_executor", "response_merger" >>
    /\ chunks[3].update = out.val

\* the calls of a request that hand a message list to a model: the reasoning
\* loop of the executor and the model of the fallback responder
AnswerCalls ==
    {i \in DOMAIN io :
        \/ io[i].call = "agent"
        \/ io[i].call = "llm" /\ io[i].by = "fallback_chatbot"}

\* a turn written by the selector
IsSelectorTurn(m) ==
    /\ m.tag = "msg"
    /\ m.role = "ai"
    /\ \/ StartsWith(m.content, T_SelectedServers)
       \/ StartsWith(m.content, T_ErrorInServerSelection)

\* C34: in a run of the workflow the message list that the executor hands to
\* the reasoning loop (and the fallback responder to its model) is the
\* request's original history followed by exactly one turn appended by the
\* selector ("Selected servers: ..." or "Error in server selection: ..."), so
\* its last element is the selector's synthetic turn and not the user's query.
C34_SelectorTurnHandedOn ==
    InGraph =>
        \A i \in AnswerCalls :
            /\ io[i].messages.tag = "list"
            /\ Len(io[i].messages.val) = Len(History) + 1
            /\ SubSeq(io[i].messages.val, 1, Len(History)) = History
            /\ IsSelectorTurn(Last(io[i].messages.val))
            /\ Last(io[i].messages.val) = state.messages.val[Len(History) + 1]
            /\ trace[1] = "mcp_selector"

\* the request's history was the one user turn "What's the weather like?"
\* and the reasoning loop was given two turns, the last one the selector's
C34_Witness ==
    /\ InGraph
    /\ request.messages = PyList(<< HumanMessage(Q_Weather) >>)
    /\ \E i \in AnswerCalls :
          /\ io[i].call = "agent"
          /\ Len(io[i].messages.val) = 2
          /\ io[i].messages.val[1] = HumanMessage(Q_Weather)
          /\ StartsWith(io[i].messages.val[2].content, T_SelectedServers)

\* a run of the workflow has ended with the merger
Merged == InGraph /\ pc = "done" /\ LastNode = "response_merger"

\* the three timing fields of two records agree
SameTiming(a, b) ==
    /\ a.start_time = b.start_time
    /\ a.end_time = b.end_time
    /\ a.response_time_seconds = b.response_time_seconds

\* C35: the timing fields of the final state are the ones stamped by the
\* merger: those written by the selector and by the executor or fallback
\* responder are overwritten, so the final start_time is not earlier than the
\* end_time of the node before the merger and the final duration covers the
\* merge step only, not selection and execution.
C35_FinalTimingIsMergers ==
    /\ [](Merged =>
            /\ SameTiming(state, out.val)
            /\ entry = "invoke" => SameTiming(result.val, out.val)
            /\ state.response_time_seconds = state.end_time - state.start_time)
    /\ [][(InGraph /\ pc = "merging" /\ pc' = "done" /\ Merged') =>
            /\ state.end_time = out.val.end_time
            /\ state'.start_time >= state.end_time
            /\ state'.start_time = now
            /\ state'.response_time_seconds = now' - now]_vars

\* invoke returned a final state whose start_time is later than the start of
\* the request and whose duration is shorter than the request took
C35_Witness ==
    /\ Merged
    /\ entry = "invoke"
    /\ "mcp_executor" \in Range(trace)
    /\ result.val.start_time = 2
    /\ result.val.end_time = 3
    /\ result.val.response_time_seconds = 1

\* the answer of the executor's branch for an empty service configuration
IsNoValidServers(m) ==
    \/ m = PyStr(T_NoValidServers)
    \/ m.tag = "msg" /\ m.content = T_NoValidServers

\* C36: every element the selector can put in selected_servers is one of
\* restaurant, parking, weather, each of which the executor maps to a
\* configured service; hence in any run of the full workflow the executor's
\* "No valid servers selected" branch is never taken.
C36_SelectionAlwaysValid ==
    /\ (LastNode = "mcp_selector" /\ out.tag = "return") =>
          /\ out.val.selected_servers.tag = "list"
          /\ \A i \in DOMAIN out.val.selected_servers.val :
                LET server == out.val.selected_servers.val[i]
                IN  /\ server \in {T_restaurant, T_parking, T_weather}
                    /\ ServiceOf(server) # << >>
                    /\ Range(ServiceOf(server)) \subseteq Range(server_configs)
                    /\ Range(ServiceOf(server)) \subseteq Range(shared.server_configs)
    /\ (InGraph /\ LastNode = "mcp_executor") =>
          /\ out.tag = "return"
          /\ ~IsNoValidServers(out.val.messages)
          /\ out.calls # << >>
    /\ (InGraph /\ pc # "start" /\ state.messages.tag = "list") =>
          \A i \in DOMAIN state.messages.val :
              i > Len(History) => ~IsNoValidServers(state.messages.val[i])

\* in a run of the workflow the selector chose parking alone and the executor
\* went on to discovery on the parking service
C36_Witness ==
    /\ InGraph
    /\ LastNode = "mcp_executor"
    /\ state.selected_servers = PyList(<< T_parking >>)
    /\ out.calls[1].call = "get_tools"
    /\ out.calls[1].services = << "Parking" >>

\* discovery was made on several services and failed at one of them
DiscoveryFailedAtOne ==
    /\ LastNode = "mcp_executor"
    /\ out.calls # << >>
    /\ out.calls[1].call = "get_tools"
    /\ Len(out.calls[1].services) > 1
    /\ out.calls[1].outcome.kind = "raise"

\* C37: the executor's outcome is all-or-nothing: in every result
\* mcp_responses is exactly one of the empty record, a success record
\* {selected_servers, tools_used, response} without an error field, or a
\* record holding only an error field; when discovery fails for any one of
\* several selected services the result is the error record, the reasoning
\* loop is not started, and nothing of the services that did respond is kept.
C37_AllOrNothing ==
    /\ (LastNode = "mcp_executor") =>
          /\ out.tag = "return"
          /\ out.val.mcp_responses.tag = "dict"
          /\ DOMAIN out.val.mcp_responses.val
                \in {{}, {"selected_servers", "tools_used", "response"},
                     {"error"}}
    /\ DiscoveryFailedAtOne =>
          /\ out.val.mcp_responses
                = PyDict([error |-> PyStr(out.calls[1].outcome.err)])
          /\ Len(out.calls) = 1
          /\ DOMAIN out.val = {"messages", "mcp_responses", "start_time",
                               "end_time", "response_time_seconds"}
          /\ out.val.messages.tag = "msg"
          /\ StartsWith(out.val.messages.content, T_ErrorExecutingMcp)

\* parking and weather were selected, the weather service refused the
\* connection, and the result is the error record
C37_Witness ==
    /\ DiscoveryFailedAtOne
    /\ out.calls[1].services = << "Parking", "Weather" >>
    /\ out.calls[1].outcome.at = "Weather"
    /\ DOMAIN out.val.mcp_responses.val = {"error"}

====
